---- MODULE Spec2Model ----
(***************************************************************************)
(* Model of the word-alignment engine (WordMatchingService, in its two     *)
(* source versions), of the component's reporting view (matchWords in      *)
(* recitation-checker.tsx) and of the session handler that re-aligns on    *)
(* every transcript update.                                                *)
(*                                                                         *)
(* Strings are sequences of UTF-16 code units (all characters used are in  *)
(* the BMP, so String.length is Len).  A number that the code keeps as a   *)
(* double is kept as the fraction it is nearest to, with the direction in  *)
(* which two roundings in a row have moved it off the nearest double.      *)
(***************************************************************************)
EXTENDS Integers, Sequences, FiniteSets, TLC

VARIABLES
    impl,                \* which source version of WordMatchingService runs
    caller,              \* "service": matchWords called directly; "component": through the component's matchWords
    pc,                  \* position inside the call
    expectedText,        \* argument expectedText / expectedVerse
    transcribedText,     \* argument transcribedText / transcription
    similarityThreshold, \* argument similarityThreshold
    expectedWords,       \* const expectedWords
    transcribedWords,    \* const transcribedWords
    matchedWords,        \* const matchedWords (grows)
    unmatchedWords,      \* const unmatchedWords (the pool)
    matchedCount,        \* let matchedCount
    totalWords,          \* const totalWords
    k,                   \* number of transcribed words the for-of loop has processed
    lastRemoved,         \* bestMatchIndex of the last loop iteration (-1: none)
    result,              \* the WordMatchResult returned, or NoResult
    results,             \* component: const results: MatchResult[]
    report,              \* component: the value returned by the component's matchWords, or NoResult
    selectedVerse,       \* session: useState selectedVerse
    isRecording,         \* session: useState isRecording
    transcription,       \* session: useState transcription
    matchResults,        \* session: useState matchResults
    accuracy,            \* session: useState accuracy
    isPerfectMatch,      \* session: useState isPerfectMatch
    isActive,            \* transcription service: isActive
    callback,            \* transcription service: callback (the handler closure, by the verse it captured)
    startPending,        \* the number of start() calls awaiting setupAudioAnalysis
    recognition,         \* transcription service: recognition ("null", or the state of the instance)
    eventResults,        \* the SpeechRecognitionResultList of the running recognition: one transcript per result (the last MaxSegments of them)
    heard,               \* history: the transcripts of the results since start() was called (the last MaxSegments of them)
    audio,               \* transcription service: mediaStream, audioContext, analyzer and speechDetectionInterval are set
    silenceFrames,       \* startSilenceDetection: let silenceFrames (capped)
    silenceTimer,        \* transcription service: silenceTimer is set
    silenceDuration,     \* Date.now() - lastSpeechTime while the service is active, in ms (capped)
    intervalDue,         \* ms until the next callback of speechDetectionInterval (0: due now, or no interval)
    timerDue,            \* ms until the callback of silenceTimer (0: due now, or no timer)
    stale,               \* the number of recognition instances that stop() has stopped and that have not ended yet
    toasts,              \* the toasts shown by the last event
    lastEvent,           \* the last event handled by the session
    argWord1,            \* word functions: first argument (word1, a)
    argWord2,            \* word functions: second argument (word2, b)
    wordsPc,             \* word functions: "call" before the call, "done" after it
    returned,            \* word functions: the function called and the value it returned, or NoResult
    lastIndex,           \* lastIndex of the static ARABIC_WORD_REGEX of part_003
    calls,               \* history: the matchWords calls made so far, with the values returned
    verses,              \* session: useState verses
    response,            \* history: what the last fetch of fetchVerses got from /api/quran
    isLoading,           \* session: useState isLoading
    request,             \* the fetchVerses call awaited by onSubmit or selectRandomVerse, or NoRequest
    mounted              \* the component is mounted

engineVars == <<caller, pc, expectedText, transcribedText, similarityThreshold,
                expectedWords, transcribedWords, matchedWords, unmatchedWords,
                matchedCount, totalWords, k, lastRemoved, result, results, report>>

sessionVars == <<selectedVerse, isRecording, transcription, matchResults, accuracy,
                 isPerfectMatch, isActive, callback, startPending, recognition,
                 eventResults, heard, audio, silenceFrames, silenceTimer, silenceDuration, intervalDue, timerDue,
                 stale, toasts, lastEvent>>

wordVars == <<argWord1, argWord2, wordsPc, returned>>

callVars == <<lastIndex, calls>>

loadVars == <<verses, response, isLoading, request, mounted>>

vars == <<impl, engineVars, sessionVars, wordVars, callVars, loadVars>>

----------------------------------------------------------------------------
(* Bounds of the model *)

MaxRefWords == 2
MaxCandWords == 2
MaxLong == 10
MaxTranscriptWords == 3
MaxSegments == 2
MaxWordLen == 3
MaxOtherLen == 2
MaxNormalizeLen == 3
MaxCalls == 3
MaxVerseNo == 2
MaxAyahs == 2
MaxPending == 2
MaxInstances == 2

----------------------------------------------------------------------------
(* JavaScript numbers <<num, den, dev>>: the double nearest to num / den     *)
(* when dev = 0, the double next below it when dev = -1, next above it when *)
(* dev = 1; den > 0                                                         *)

Frac(n, d) == <<n, d, 0>>
FCompare(a, b) ==
    IF a[1] * b[2] < b[1] * a[2] THEN -1
    ELSE IF a[1] * b[2] > b[1] * a[2] THEN 1
    ELSE IF a[3] < b[3] THEN -1 ELSE IF a[3] > b[3] THEN 1 ELSE 0
FLt(a, b) == FCompare(a, b) < 0
FLeq(a, b) == FCompare(a, b) <= 0
FEq(a, b) == FCompare(a, b) = 0
FZero == <<0, 1, 0>>
FOne == <<1, 1, 0>>
NaN == <<0, 0, 0>>

----------------------------------------------------------------------------
(* IEEE 754 double arithmetic on binary numerals <<units bit, bits after    *)
(* the point>>, for the numbers between 0 and 1 the service computes        *)

SIGNIFICAND_BITS == 53

\* the number of zero bits that follow the binary point of n / m, 0 < n < m
RECURSIVE LeadingZeros(_, _)
LeadingZeros(n, m) == IF 2 * n >= m THEN 0 ELSE 1 + LeadingZeros(2 * n, m)

\* the first width bits after the binary point of n / m, n < m, by long division
RECURSIVE DivBits(_, _, _)
DivBits(n, m, width) ==
    IF width = 0 THEN <<>>
    ELSE IF 2 * n >= m THEN <<1>> \o DivBits(2 * n - m, m, width - 1)
         ELSE <<0>> \o DivBits(2 * n, m, width - 1)

\* what the long division of n / m leaves after width bits
RECURSIVE DivRem(_, _, _)
DivRem(n, m, width) ==
    IF width = 0 THEN n
    ELSE IF 2 * n >= m THEN DivRem(2 * n - m, m, width - 1) ELSE DivRem(2 * n, m, width - 1)

\* a binary numeral <<units bit, bits after the point>> plus one in its last place
RECURSIVE Increment(_)
Increment(bits) ==
    IF bits = <<>> THEN <<>>
    ELSE IF bits[Len(bits)] = 0 THEN SubSeq(bits, 1, Len(bits) - 1) \o <<1>>
         ELSE Increment(SubSeq(bits, 1, Len(bits) - 1)) \o <<0>>

\* the position of the first 1 of a numeral, Len + 1 when there is none
RECURSIVE FirstOne(_, _)
FirstOne(bits, i) ==
    IF i > Len(bits) THEN i ELSE IF bits[i] = 1 THEN i ELSE FirstOne(bits, i + 1)

\* round to nearest, ties to even, at 53 significant bits
RoundBits(bits, sticky) ==
    LET first == FirstOne(bits, 1)
        last == first + SIGNIFICAND_BITS - 1
    IN IF last >= Len(bits) THEN bits
       ELSE LET kept == SubSeq(bits, 1, last)
                guard == bits[last + 1]
                rest == sticky \/ \E i \in (last + 2)..Len(bits) : bits[i] = 1
            IN IF guard = 1 /\ (rest \/ kept[last] = 1) THEN Increment(kept) ELSE kept

\* the double nearest to n / m, 0 <= n <= m, m > 0
DoubleOf(n, m) ==
    IF n = 0 THEN <<0>>
    ELSE IF n = m THEN <<1>>
    ELSE LET width == LeadingZeros(n, m) + SIGNIFICAND_BITS + 1
         IN RoundBits(<<0>> \o DivBits(n, m, width), DivRem(n, m, width) # 0)

\* the double 1 - q of a double 0 <= q <= 1: the exact difference, rounded
OneMinus(q) ==
    IF \A i \in 1..Len(q) : q[i] = 0 THEN <<1>>
    ELSE IF q[1] = 1 THEN <<0>>
    ELSE RoundBits(<<0>> \o Tail(Increment([i \in 1..Len(q) |-> 1 - q[i]])), FALSE)

\* the order of two numerals: -1, 0 or 1
RECURSIVE CompareBits(_, _, _)
CompareBits(a, b, i) ==
    IF i > Len(a) /\ i > Len(b) THEN 0
    ELSE LET x == IF i > Len(a) THEN 0 ELSE a[i]
             y == IF i > Len(b) THEN 0 ELSE b[i]
         IN IF x < y THEN -1 ELSE IF x > y THEN 1 ELSE CompareBits(a, b, i + 1)

\* how 1 - (distance / maxLength) in doubles, the quotient rounded and then the
\* difference, compares with the double nearest to the exact value
Deviation(distance, maxLength) ==
    CompareBits(OneMinus(DoubleOf(distance, maxLength)),
                DoubleOf(maxLength - distance, maxLength), 1)

\* the deviations for the lengths of the words of the model, computed once
MemoLength == MaxWordLen + MaxOtherLen + MaxNormalizeLen
DeviationMemo == [maxLength \in 1..MemoLength |->
                    [distance \in 0..maxLength |-> Deviation(distance, maxLength)]]

\* 1 - (distance / maxLength); the service divides a distance by a length that
\* is not below it
OneMinusQuotient(distance, maxLength) ==
    <<maxLength - distance, maxLength,
      IF distance > maxLength THEN 0
      ELSE IF maxLength <= MemoLength THEN DeviationMemo[maxLength][distance]
      ELSE Deviation(distance, maxLength)>>

----------------------------------------------------------------------------
(* Code points named by the regular expressions of the service *)

ARABIC_FIRST == 1536
ARABIC_LAST == 1791
DIACRITICS_FIRST == 1611
DIACRITICS_LAST == 1631
SUPERSCRIPT_ALEF == 1648
ALEF_MADDA == 1570
ALEF_HAMZA_ABOVE == 1571
ALEF_HAMZA_BELOW == 1573
ALEF == 1575
ALEF_MAKSURA == 1609
YEH == 1610

\* one character of ARABIC_WORD_REGEX  /[\u0600-\u06FF]+/g
IsArabic(c) == c >= ARABIC_FIRST /\ c <= ARABIC_LAST

\* one character of DIACRITICS_REGEX  /[\u064B-\u065F\u0670]/g
IsDiacritic(c) == (c >= DIACRITICS_FIRST /\ c <= DIACRITICS_LAST) \/ c = SUPERSCRIPT_ALEF

\* one character of ALIF_VARIANTS_REGEX  /[\u0622\u0623\u0625]/g
IsAlifVariant(c) == c \in {ALEF_MADDA, ALEF_HAMZA_ABOVE, ALEF_HAMZA_BELOW}

----------------------------------------------------------------------------
(* text.match(ARABIC_WORD_REGEX) || [] : the maximal runs of Arabic-block   *)
(* characters, left to right.                                               *)

RECURSIVE ScanWords(_, _, _, _)
ScanWords(text, i, cur, acc) ==
    IF i > Len(text)
    THEN IF cur = <<>> THEN acc ELSE Append(acc, cur)
    ELSE IF IsArabic(text[i])
         THEN ScanWords(text, i + 1, Append(cur, text[i]), acc)
         ELSE ScanWords(text, i + 1, <<>>, IF cur = <<>> THEN acc ELSE Append(acc, cur))

ExtractWords(text) == ScanWords(text, 1, <<>>, <<>>)

----------------------------------------------------------------------------
(* normalizeArabic: three String.replace passes *)

\* mutation: the regular expression lacks the g flag, only the first
\* diacritic is removed
RECURSIVE RemoveFirstDiacritic(_)
RemoveFirstDiacritic(text) ==
    IF text = <<>> THEN <<>>
    ELSE IF IsDiacritic(Head(text))
         THEN Tail(text)
         ELSE <<Head(text)>> \o RemoveFirstDiacritic(Tail(text))

RECURSIVE RemoveDiacritics(_)
RemoveDiacritics(text) ==
    IF text = <<>> THEN <<>>
    ELSE IF IsDiacritic(Head(text))
         THEN RemoveDiacritics(Tail(text))
         ELSE <<Head(text)>> \o RemoveDiacritics(Tail(text))

ReplaceAlifVariants(text) ==
    [i \in 1..Len(text) |-> IF IsAlifVariant(text[i]) THEN ALEF ELSE text[i]]

ReplaceYa(text) ==
    [i \in 1..Len(text) |-> IF text[i] = ALEF_MAKSURA THEN YEH ELSE text[i]]

normalizeArabic(text) == ReplaceYa(ReplaceAlifVariants(RemoveDiacritics(text)))

----------------------------------------------------------------------------
(* levenshteinDistance *)

Min2(x, y) == IF x <= y THEN x ELSE y
Min3(x, y, z) == Min2(x, Min2(y, z))
Max2(x, y) == IF x >= y THEN x ELSE y

\* mutation: the substitution term is missing from the minimum
RECURSIVE FillCurrRowNoSubstitution(_, _, _, _, _, _)
FillCurrRowNoSubstitution(a, b, i, j, prevRow, currRow) ==
    IF j > Len(a) THEN currRow
    ELSE LET cost == IF b[i] = a[j] THEN 0 ELSE 1
             v == IF cost = 0 THEN prevRow[j]
                  ELSE Min2(prevRow[j + 1] + 1, currRow[j] + 1)
         IN FillCurrRowNoSubstitution(a, b, i, j + 1, prevRow, [currRow EXCEPT ![j + 1] = v])

\* part_003: inner loop over j, filling currRow (index j of the code is j + 1 here)
RECURSIVE FillCurrRow(_, _, _, _, _, _)
FillCurrRow(a, b, i, j, prevRow, currRow) ==
    IF j > Len(a) THEN currRow
    ELSE LET cost == IF b[i] = a[j] THEN 0 ELSE 1
             v == Min3(prevRow[j] + cost, prevRow[j + 1] + 1, currRow[j] + 1)
         IN FillCurrRow(a, b, i, j + 1, prevRow, [currRow EXCEPT ![j + 1] = v])

\* part_003: outer loop over i, with the swap of the two rows
RECURSIVE RollRows(_, _, _, _, _)
RollRows(a, b, i, prevRow, currRow) ==
    IF i > Len(b) THEN prevRow[Len(a) + 1]
    ELSE LET filled == FillCurrRow(a, b, i, 1, prevRow, [currRow EXCEPT ![1] = i])
         IN RollRows(a, b, i + 1, filled, prevRow)

\* part_003 (two rolling rows)
levenshteinDistanceRows(a, b) ==
    IF Len(a) = 0 THEN Len(b)
    ELSE IF Len(b) = 0 THEN Len(a)
    ELSE RollRows(a, b, 1, [j \in 1..(Len(a) + 1) |-> j - 1],
                           [j \in 1..(Len(a) + 1) |-> 0])

\* part_002: inner loop over j, filling matrix[i] (row and column indices shifted by one)
RECURSIVE FillMatrixRow(_, _, _, _, _)
FillMatrixRow(a, b, i, j, matrix) ==
    IF j > Len(a) THEN matrix
    ELSE LET v == IF b[i] = a[j]
                  THEN matrix[i][j]
                  ELSE Min3(matrix[i][j] + 1, matrix[i + 1][j] + 1, matrix[i][j + 1] + 1)
         IN FillMatrixRow(a, b, i, j + 1,
                          [matrix EXCEPT ![i + 1] = Append(matrix[i + 1], v)])

RECURSIVE FillMatrix(_, _, _, _)
FillMatrix(a, b, i, matrix) ==
    IF i > Len(b) THEN matrix
    ELSE FillMatrix(a, b, i + 1, FillMatrixRow(a, b, i, 1, matrix))

\* part_002 (full matrix)
levenshteinDistanceMatrix(a, b) ==
    LET init == [i \in 1..(Len(b) + 1) |->
                    IF i = 1 THEN [j \in 1..(Len(a) + 1) |-> j - 1] ELSE <<i - 1>>]
    IN FillMatrix(a, b, 1, init)[Len(b) + 1][Len(a) + 1]

levenshteinDistance(version, a, b) ==
    IF version = "part_003" THEN levenshteinDistanceRows(a, b)
    ELSE levenshteinDistanceMatrix(a, b)

----------------------------------------------------------------------------
(* calculateSimilarity *)

NORMALIZED_MATCH_SIMILARITY == Frac(9, 10)

\* mutation: words equal after normalization score 1.0
calculateSimilarityNormalizedOne(version, word1, word2) ==
    IF word1 = word2 THEN FOne
    ELSE IF Len(word1) = 0 \/ Len(word2) = 0 THEN FZero
    ELSE LET normalizedA == normalizeArabic(word1)
             normalizedB == normalizeArabic(word2)
         IN IF normalizedA = normalizedB THEN FOne
            ELSE LET distance == levenshteinDistance(version, normalizedA, normalizedB)
                     maxLength == Max2(Len(normalizedA), Len(normalizedB))
                 IN IF maxLength > 0 THEN OneMinusQuotient(distance, maxLength) ELSE FZero

\* mutation: the empty check comes before the equality check
calculateSimilarityEmptyFirst(version, word1, word2) ==
    IF Len(word1) = 0 \/ Len(word2) = 0 THEN FZero
    ELSE IF word1 = word2 THEN FOne
    ELSE LET normalizedA == normalizeArabic(word1)
             normalizedB == normalizeArabic(word2)
         IN IF normalizedA = normalizedB THEN NORMALIZED_MATCH_SIMILARITY
            ELSE LET distance == levenshteinDistance(version, normalizedA, normalizedB)
                     maxLength == Max2(Len(normalizedA), Len(normalizedB))
                 IN IF maxLength > 0 THEN OneMinusQuotient(distance, maxLength) ELSE FZero

\* mutation: the distance is divided by the shorter length
calculateSimilarityMinLength(version, word1, word2) ==
    IF word1 = word2 THEN FOne
    ELSE IF Len(word1) = 0 \/ Len(word2) = 0 THEN FZero
    ELSE LET normalizedA == normalizeArabic(word1)
             normalizedB == normalizeArabic(word2)
         IN IF normalizedA = normalizedB THEN NORMALIZED_MATCH_SIMILARITY
            ELSE LET distance == levenshteinDistance(version, normalizedA, normalizedB)
                     maxLength == Min2(Len(normalizedA), Len(normalizedB))
                 IN IF maxLength > 0 THEN OneMinusQuotient(distance, maxLength) ELSE FZero

\* mutation: the distance is taken between the words as given
calculateSimilarityRaw(version, word1, word2) ==
    IF word1 = word2 THEN FOne
    ELSE IF Len(word1) = 0 \/ Len(word2) = 0 THEN FZero
    ELSE LET normalizedA == normalizeArabic(word1)
             normalizedB == normalizeArabic(word2)
         IN IF normalizedA = normalizedB THEN NORMALIZED_MATCH_SIMILARITY
            ELSE LET distance == levenshteinDistance(version, word1, word2)
                     maxLength == Max2(Len(normalizedA), Len(normalizedB))
                 IN IF maxLength > 0 THEN OneMinusQuotient(distance, maxLength) ELSE FZero

\* mutation: the distance is divided by the length of the first word
calculateSimilarityFirstLength(version, word1, word2) ==
    IF word1 = word2 THEN FOne
    ELSE IF Len(word1) = 0 \/ Len(word2) = 0 THEN FZero
    ELSE LET normalizedA == normalizeArabic(word1)
             normalizedB == normalizeArabic(word2)
         IN IF normalizedA = normalizedB THEN NORMALIZED_MATCH_SIMILARITY
            ELSE LET distance == levenshteinDistance(version, normalizedA, normalizedB)
                     maxLength == Len(normalizedA)
                 IN IF maxLength > 0 THEN OneMinusQuotient(distance, maxLength) ELSE FZero

\* mutation: the guard on the normalized lengths comes before the comparison
calculateSimilarityGuardFirst(version, word1, word2) ==
    IF word1 = word2 THEN FOne
    ELSE IF Len(word1) = 0 \/ Len(word2) = 0 THEN FZero
    ELSE LET normalizedA == normalizeArabic(word1)
             normalizedB == normalizeArabic(word2)
             maxLength == Max2(Len(normalizedA), Len(normalizedB))
         IN IF maxLength = 0 THEN FZero
            ELSE IF normalizedA = normalizedB THEN NORMALIZED_MATCH_SIMILARITY
            ELSE OneMinusQuotient(levenshteinDistance(version, normalizedA, normalizedB),
                                  maxLength)

\* lines 103-120
calculateSimilarity(version, word1, word2) ==
    IF word1 = word2 THEN FOne
    ELSE IF Len(word1) = 0 \/ Len(word2) = 0 THEN FZero
    ELSE LET normalizedA == normalizeArabic(word1)
             normalizedB == normalizeArabic(word2)
         IN IF normalizedA = normalizedB THEN NORMALIZED_MATCH_SIMILARITY
            ELSE LET distance == levenshteinDistance(version, normalizedA, normalizedB)
                     maxLength == Max2(Len(normalizedA), Len(normalizedB))
                 IN IF maxLength > 0 THEN OneMinusQuotient(distance, maxLength) ELSE FZero

----------------------------------------------------------------------------
(* WordMatchingService.matchWords: the consumption view *)

DEFAULT_SIMILARITY_THRESHOLD == Frac(7, 10)
PERFECT_MATCH_THRESHOLD == Frac(9, 10)

\* part_003 lines 41-43; part_002 has no validation
ThresholdRejected(version, threshold) ==
    version = "part_003" /\ (FLt(threshold, FZero) \/ FLt(FOne, threshold))

\* the inner for loop over the pool (i is the 0-based index of the code);
\* yields the final bestMatchIndex (-1: none)
RECURSIVE ScanPool(_, _, _, _, _, _, _)
ScanPool(version, pool, transcribedWord, threshold, i, bestMatchIndex, bestMatchSimilarity) ==
    IF i >= Len(pool) THEN bestMatchIndex
    ELSE LET expectedWord == pool[i + 1]
             similarity == calculateSimilarity(version, expectedWord, transcribedWord)
         IN IF FLt(bestMatchSimilarity, similarity) /\ FLeq(threshold, similarity)
            THEN ScanPool(version, pool, transcribedWord, threshold, i + 1, i, similarity)
            ELSE ScanPool(version, pool, transcribedWord, threshold, i + 1,
                          bestMatchIndex, bestMatchSimilarity)

BestMatchIndex(version, pool, transcribedWord, threshold) ==
    ScanPool(version, pool, transcribedWord, threshold, 0, -1, FZero)

\* mutation: the entry is not removed from the pool
SpliceNothing(seq, index) == seq

\* Array.prototype.splice(index, 1) with a 0-based index
Splice(seq, index) ==
    [j \in 1..(Len(seq) - 1) |-> IF j <= index THEN seq[j] ELSE seq[j + 1]]

\* mutation: the transcribed word is pushed instead of the pool entry
ProcessWordPushTranscribed(version, st, transcribedWord, threshold) ==
    LET bestMatchIndex == BestMatchIndex(version, st.unmatchedWords, transcribedWord, threshold)
    IN IF bestMatchIndex # -1
       THEN [matchedWords   |-> Append(st.matchedWords, transcribedWord),
             unmatchedWords |-> Splice(st.unmatchedWords, bestMatchIndex),
             matchedCount   |-> st.matchedCount + 1,
             bestMatchIndex |-> bestMatchIndex]
       ELSE [st EXCEPT !.bestMatchIndex = -1]

\* one iteration of the outer for-of loop, on the locals
\* st = [matchedWords, unmatchedWords, matchedCount, bestMatchIndex]
ProcessWord(version, st, transcribedWord, threshold) ==
    LET bestMatchIndex == BestMatchIndex(version, st.unmatchedWords, transcribedWord, threshold)
    IN IF bestMatchIndex # -1
       THEN [matchedWords   |-> Append(st.matchedWords, st.unmatchedWords[bestMatchIndex + 1]),
             unmatchedWords |-> Splice(st.unmatchedWords, bestMatchIndex),
             matchedCount   |-> st.matchedCount + 1,
             bestMatchIndex |-> bestMatchIndex]
       ELSE [st EXCEPT !.bestMatchIndex = -1]

\* mutation: strict comparisons against the perfect-match threshold
MakeResultStrict(mWords, uWords, mCount, total) ==
    LET acc == IF total > 0 THEN Frac(mCount, total) ELSE FZero
        perfectMatch == FLt(PERFECT_MATCH_THRESHOLD, acc)
                        /\ FLt(Frac(total * PERFECT_MATCH_THRESHOLD[1], PERFECT_MATCH_THRESHOLD[2]),
                               Frac(mCount, 1))
    IN [matchedWords |-> mWords, unmatchedWords |-> uWords, accuracy |-> acc,
        matchedCount |-> mCount, totalWords |-> total, perfectMatch |-> perfectMatch]

\* mutation: accuracy divides by the number of matched plus unmatched words plus one
MakeResultOffByOne(mWords, uWords, mCount, total) ==
    LET acc == IF total > 0 THEN Frac(mCount, total + 1) ELSE FZero
        perfectMatch == FLeq(PERFECT_MATCH_THRESHOLD, acc)
                        /\ FLeq(Frac(total * PERFECT_MATCH_THRESHOLD[1], PERFECT_MATCH_THRESHOLD[2]),
                                Frac(mCount, 1))
    IN [matchedWords |-> mWords, unmatchedWords |-> uWords, accuracy |-> acc,
        matchedCount |-> mCount, totalWords |-> total, perfectMatch |-> perfectMatch]

\* mutation: an empty reference counts as fully recited
MakeResultEmptyIsOne(mWords, uWords, mCount, total) ==
    LET acc == IF total > 0 THEN Frac(mCount, total) ELSE FOne
        perfectMatch == FLeq(PERFECT_MATCH_THRESHOLD, acc)
                        /\ FLeq(Frac(total * PERFECT_MATCH_THRESHOLD[1], PERFECT_MATCH_THRESHOLD[2]),
                                Frac(mCount, 1))
    IN [matchedWords |-> mWords, unmatchedWords |-> uWords, accuracy |-> acc,
        matchedCount |-> mCount, totalWords |-> total, perfectMatch |-> perfectMatch]

\* lines 80-94: accuracy, perfectMatch and the returned object
MakeResult(mWords, uWords, mCount, total) ==
    LET acc == IF total > 0 THEN Frac(mCount, total) ELSE FZero
        perfectMatch == FLeq(PERFECT_MATCH_THRESHOLD, acc)
                        /\ FLeq(Frac(total * PERFECT_MATCH_THRESHOLD[1], PERFECT_MATCH_THRESHOLD[2]),
                                Frac(mCount, 1))
    IN [matchedWords   |-> mWords,
        unmatchedWords |-> uWords,
        accuracy       |-> acc,
        matchedCount   |-> mCount,
        totalWords     |-> total,
        perfectMatch   |-> perfectMatch]

----------------------------------------------------------------------------
(* The component's matchWords: the reporting view *)

\* the string 'not found'
NotFound == <<110, 111, 116, 32, 102, 111, 117, 110, 100>>
REPORT_THRESHOLD == Frac(6, 10)

\* mutation: >= instead of >, the last candidate attaining the maximum wins
RECURSIVE ScanTranscribedLast(_, _, _, _, _, _)
ScanTranscribedLast(version, expectedWord, words, i, bestMatch, bestRatio) ==
    IF i > Len(words) THEN [bestMatch |-> bestMatch, bestRatio |-> bestRatio]
    ELSE LET ratio == calculateSimilarity(version, expectedWord, words[i])
         IN IF FLeq(bestRatio, ratio)
            THEN ScanTranscribedLast(version, expectedWord, words, i + 1, words[i], ratio)
            ELSE ScanTranscribedLast(version, expectedWord, words, i + 1, bestMatch, bestRatio)

\* the inner for-of loop over transcribedWords; yields [bestMatch, bestRatio]
RECURSIVE ScanTranscribed(_, _, _, _, _, _)
ScanTranscribed(version, expectedWord, words, i, bestMatch, bestRatio) ==
    IF i > Len(words) THEN [bestMatch |-> bestMatch, bestRatio |-> bestRatio]
    ELSE LET ratio == calculateSimilarity(version, expectedWord, words[i])
         IN IF FLt(bestRatio, ratio)
            THEN ScanTranscribed(version, expectedWord, words, i + 1, words[i], ratio)
            ELSE ScanTranscribed(version, expectedWord, words, i + 1, bestMatch, bestRatio)

\* mutation: a record is matched from the service's default threshold 0.7 on
MatchRecordDefaultThreshold(version, expectedWord, words) ==
    CHOOSE rec \in
        {[expectedWord |-> expectedWord,
          bestMatch    |-> IF FLt(FZero, best.bestRatio) THEN best.bestMatch ELSE NotFound,
          ratio        |-> best.bestRatio,
          matched      |-> FLeq(DEFAULT_SIMILARITY_THRESHOLD, best.bestRatio)] :
             best \in {ScanTranscribed(version, expectedWord, words, 1, NotFound, FZero)}} : TRUE

\* one iteration of the loop over expectedWords: the MatchResult pushed
MatchRecord(version, expectedWord, words) ==
    CHOOSE rec \in
        {[expectedWord |-> expectedWord,
          bestMatch    |-> IF FLt(FZero, best.bestRatio) THEN best.bestMatch ELSE NotFound,
          ratio        |-> best.bestRatio,
          matched      |-> FLeq(REPORT_THRESHOLD, best.bestRatio)] :
             best \in {ScanTranscribed(version, expectedWord, words, 1, NotFound, FZero)}} : TRUE

\* let matchedCount of the component: the records pushed with matched = true
RECURSIVE CountMatched(_)
CountMatched(recs) ==
    IF recs = <<>> THEN 0
    ELSE (IF Head(recs).matched THEN 1 ELSE 0) + CountMatched(Tail(recs))

\* lines 388-392
MakeReport(recs, total) ==
    [matchResults |-> recs,
     accuracy     |-> IF total > 0 THEN Frac(CountMatched(recs), total) ELSE FZero]

----------------------------------------------------------------------------
(* Inputs *)

\* four words: beh-teh, beh-fatha-teh, teh-beh, beh-teh-alef
WordBT == <<1576, 1578>>
WordBaT == <<1576, 1614, 1578>>
WordTB == <<1578, 1576>>
WordBTA == <<1576, 1578, 1575>>
Vocabulary == {WordBT, WordBaT, WordTB, WordBTA}

RECURSIVE JoinWords(_)
JoinWords(ws) ==
    IF ws = <<>> THEN <<>>
    ELSE IF Len(ws) = 1 THEN ws[1]
    ELSE ws[1] \o <<32>> \o JoinWords(Tail(ws))

WordLists(n) == UNION {[1..m -> Vocabulary] : m \in 0..n}

Repeat(w, n) == [i \in 1..n |-> w]

\* texts with punctuation, Latin letters, doubled and leading separators
ExtraTexts == {<<32, 1576, 1578, 46, 32, 32, 1578, 1576, 32>>,
               <<65, 1576, 1614, 1578, 1548, 66, 1576, 1578, 1575>>}

Thresholds == {Frac(-1, 10), Frac(0, 1), Frac(7, 10), Frac(1, 1), Frac(15, 10)}
Versions == {"part_003", "part_002"}

NoResult == [none |-> TRUE]

InitLocals ==
    /\ pc = "call"
    /\ expectedWords = <<>>
    /\ transcribedWords = <<>>
    /\ matchedWords = <<>>
    /\ unmatchedWords = <<>>
    /\ matchedCount = 0
    /\ totalWords = 0
    /\ k = 0
    /\ lastRemoved = -1
    /\ result = NoResult
    /\ results = <<>>
    /\ report = NoResult

\* short texts over the vocabulary, every threshold
InitShort ==
    /\ expectedText \in {JoinWords(ws) : ws \in WordLists(MaxRefWords)} \cup ExtraTexts
    /\ transcribedText \in {JoinWords(ws) : ws \in WordLists(MaxCandWords)} \cup ExtraTexts
    /\ \/ caller = "service" /\ similarityThreshold \in Thresholds
       \/ caller = "component" /\ similarityThreshold = REPORT_THRESHOLD

\* long texts of repeated words, default threshold
InitLong ==
    /\ \E n \in 0..MaxLong : expectedText = JoinWords(Repeat(WordBT, n))
    /\ \E m \in 0..MaxLong : \E j \in 0..(MaxLong - m) :
          transcribedText = JoinWords(Repeat(WordBT, m) \o Repeat(WordTB, j))
    /\ \/ caller = "service" /\ similarityThreshold = DEFAULT_SIMILARITY_THRESHOLD
       \/ caller = "component" /\ similarityThreshold = REPORT_THRESHOLD

\* no word function is being called
WordsIdle ==
    /\ argWord1 = <<>>
    /\ argWord2 = <<>>
    /\ wordsPc = "idle"
    /\ returned = NoResult

\* the class as loaded: the static regular expression has lastIndex 0
CallsIdle ==
    /\ lastIndex = 0
    /\ calls = <<>>

NoResponse == [kind |-> "none"]
NoRequest == [handler |-> "none"]

\* the component as mounted: no verses, nothing fetched
LoadIdle ==
    /\ verses = <<>>
    /\ response = NoResponse
    /\ isLoading = FALSE
    /\ request = NoRequest
    /\ mounted = TRUE

NoCallback == [none |-> TRUE]
NoEvent == [type |-> "none", transcript |-> <<>>, verse |-> <<>>, instance |-> "current"]

\* the component as mounted: the useState initial values, the service as constructed
SessionIdle ==
    /\ selectedVerse = <<>>
    /\ isRecording = FALSE
    /\ transcription = <<>>
    /\ matchResults = <<>>
    /\ accuracy = FZero
    /\ isPerfectMatch = FALSE
    /\ isActive = FALSE
    /\ callback = NoCallback
    /\ startPending = 0
    /\ recognition = "null"
    /\ eventResults = <<>>
    /\ heard = <<>>
    /\ audio = FALSE
    /\ silenceFrames = 0
    /\ silenceTimer = FALSE
    /\ silenceDuration = 0
    /\ intervalDue = 0
    /\ timerDue = 0
    /\ stale = 0
    /\ toasts = <<>>
    /\ lastEvent = NoEvent

Init ==
    /\ impl \in Versions
    /\ InitLocals
    /\ (InitShort \/ InitLong)
    /\ SessionIdle
    /\ WordsIdle
    /\ CallsIdle
    /\ LoadIdle

----------------------------------------------------------------------------
(* Actions *)

\* matchWords is entered: validation, word extraction, locals
MatchWordsEnter ==
    /\ pc = "call"
    /\ IF ThresholdRejected(impl, similarityThreshold)
       THEN /\ pc' = "thrown"
            /\ UNCHANGED <<expectedWords, transcribedWords, unmatchedWords, totalWords>>
       ELSE /\ pc' = "loop"
            /\ expectedWords' = ExtractWords(expectedText)
            /\ transcribedWords' = ExtractWords(transcribedText)
            /\ unmatchedWords' = ExtractWords(expectedText)
            /\ totalWords' = Len(ExtractWords(expectedText))
    /\ UNCHANGED <<sessionVars, wordVars, callVars, loadVars>>
    /\ UNCHANGED <<impl, caller, expectedText, transcribedText, similarityThreshold,
                   matchedWords, matchedCount, k, lastRemoved, result, results, report>>

\* one iteration of the for-of loop over transcribedWords
MatchWordsLoop ==
    /\ pc = "loop"
    /\ k < Len(transcribedWords)
    /\ \E st \in {ProcessWord(impl,
                             [matchedWords |-> matchedWords, unmatchedWords |-> unmatchedWords,
                              matchedCount |-> matchedCount, bestMatchIndex |-> -1],
                             transcribedWords[k + 1], similarityThreshold)} :
          /\ matchedWords' = st.matchedWords
          /\ unmatchedWords' = st.unmatchedWords
          /\ matchedCount' = st.matchedCount
          /\ lastRemoved' = st.bestMatchIndex
    /\ k' = k + 1
    /\ UNCHANGED <<sessionVars, wordVars, callVars, loadVars>>
    /\ UNCHANGED <<impl, caller, pc, expectedText, transcribedText, similarityThreshold,
                   expectedWords, transcribedWords, totalWords, result, results, report>>

\* the loop is over: accuracy, perfectMatch, return
MatchWordsReturn ==
    /\ pc = "loop"
    /\ k = Len(transcribedWords)
    /\ result' = MakeResult(matchedWords, unmatchedWords, matchedCount, totalWords)
    /\ pc' = IF caller = "component" THEN "report" ELSE "done"
    /\ UNCHANGED <<sessionVars, wordVars, callVars, loadVars>>
    /\ UNCHANGED <<impl, caller, expectedText, transcribedText, similarityThreshold,
                   expectedWords, transcribedWords, matchedWords, unmatchedWords,
                   matchedCount, totalWords, k, lastRemoved, results, report>>

\* mutation: a matched candidate is removed from the candidate list
ReportLoopConsuming ==
    /\ pc = "report"
    /\ Len(results) < Len(expectedWords)
    /\ \E rec \in {MatchRecord(impl, expectedWords[Len(results) + 1], transcribedWords)} :
       \E pos \in {CHOOSE j \in 0..Len(transcribedWords) :
                     IF rec.matched THEN j > 0 /\ transcribedWords[j] = rec.bestMatch
                     ELSE j = 0} :
          /\ results' = Append(results, rec)
          /\ transcribedWords' = IF pos > 0 THEN Splice(transcribedWords, pos - 1)
                                 ELSE transcribedWords
    /\ UNCHANGED <<sessionVars, wordVars, callVars, loadVars>>
    /\ UNCHANGED <<impl, caller, pc, expectedText, transcribedText, similarityThreshold,
                   expectedWords, matchedWords, unmatchedWords,
                   matchedCount, totalWords, k, lastRemoved, result, report>>

\* component: one iteration of the loop over expectedWords
ReportLoop ==
    /\ pc = "report"
    /\ Len(results) < Len(expectedWords)
    /\ results' = Append(results,
                         MatchRecord(impl, expectedWords[Len(results) + 1], transcribedWords))
    /\ UNCHANGED <<sessionVars, wordVars, callVars, loadVars>>
    /\ UNCHANGED <<impl, caller, pc, expectedText, transcribedText, similarityThreshold,
                   expectedWords, transcribedWords, matchedWords, unmatchedWords,
                   matchedCount, totalWords, k, lastRemoved, result, report>>

\* component: accuracy and return
ReportReturn ==
    /\ pc = "report"
    /\ Len(results) = Len(expectedWords)
    /\ report' = MakeReport(results, Len(expectedWords))
    /\ pc' = "done"
    /\ UNCHANGED <<sessionVars, wordVars, callVars, loadVars>>
    /\ UNCHANGED <<impl, caller, expectedText, transcribedText, similarityThreshold,
                   expectedWords, transcribedWords, matchedWords, unmatchedWords,
                   matchedCount, totalWords, k, lastRemoved, result, results>>

Next ==
    \/ MatchWordsEnter
    \/ MatchWordsLoop
    \/ MatchWordsReturn
    \/ ReportLoop
    \/ ReportReturn

Spec == Init /\ [][Next]_vars

----------------------------------------------------------------------------
(* The session: handleTranscriptionUpdate, startRecording, stopRecording    *)
(* of the component, and the start/stop/onresult of the transcription       *)
(* service that drive them.                                                 *)

GOOD_RATIO == Frac(45, 100)
MIN_VERSE_PROGRESS == Frac(9, 10)
MIN_TRANSCRIPTION_LENGTH == 10

\* the loop over expectedWords of the component's matchWords, from record i on
RECURSIVE ReportRecords(_, _, _, _)
ReportRecords(version, eWords, tWords, i) ==
    IF i > Len(eWords) THEN <<>>
    ELSE <<MatchRecord(version, eWords[i], tWords)>> \o ReportRecords(version, eWords, tWords, i + 1)

\* the component's matchWords as one call (the result of the service call at
\* line 353 is discarded, and 0.6 passes the validation)
componentMatchWords(version, expectedVerse, newTranscription) ==
    LET eWords == ExtractWords(expectedVerse)
        tWords == ExtractWords(newTranscription)
    IN MakeReport(ReportRecords(version, eWords, tWords, 1), Len(eWords))

\* Math.min(1, t / e) as a fraction; NaN is 0 / 0, and
\* Math.min(1, Infinity) is 1
VerseProgress(t, e) ==
    IF e = 0 THEN (IF t = 0 THEN NaN ELSE FOne)
    ELSE IF t >= e THEN FOne ELSE Frac(t, e)

\* p >= q for a p that may be NaN
AtLeast(p, q) == p[2] # 0 /\ FLeq(q, p)

\* mutation: the verse-progress gate is missing
AllMatchedNoProgress(recs, newTranscription, verseProgress) ==
    /\ \A i \in 1..Len(recs) : recs[i].matched
    /\ Len(recs) > 0
    /\ Len(newTranscription) > MIN_TRANSCRIPTION_LENGTH

\* lines 242-246
AllMatched(recs, newTranscription, verseProgress) ==
    /\ \A i \in 1..Len(recs) : recs[i].matched
    /\ Len(recs) > 0
    /\ Len(newTranscription) > MIN_TRANSCRIPTION_LENGTH
    /\ AtLeast(verseProgress, MIN_VERSE_PROGRESS)

\* lines 235-239
AllWordsAboveThreshold(recs, newTranscription, verseProgress) ==
    /\ Len(recs) > 0
    /\ \A i \in 1..Len(recs) : FLeq(GOOD_RATIO, recs[i].ratio)
    /\ Len(newTranscription) > MIN_TRANSCRIPTION_LENGTH
    /\ AtLeast(verseProgress, MIN_VERSE_PROGRESS)

\* session inputs: a five-letter word and two two-letter words
WordLong == <<1576, 1578, 1575, 1576, 1578>>
WordBA == <<1576, 1575>>

\* what the recognition may deliver as its first result: some long words
\* followed by some short ones
Transcripts ==
    {JoinWords([i \in 1..(n[1] + n[2]) |-> IF i <= n[1] THEN WordLong ELSE WordBT]) :
        n \in {c \in (0..MaxTranscriptWords) \X (0..MaxTranscriptWords) :
                  c[1] + c[2] >= 1 /\ c[1] + c[2] <= MaxTranscriptWords}}

\* what a later result of the recognition may hold: one word
LaterTranscripts == {JoinWords(<<WordBT>>)}

\* the transcripts of the runs that follow the silence detection and the
\* stopped instances
ServiceTranscripts == {JoinWords(<<WordLong, WordLong, WordLong>>), JoinWords(<<WordBT>>)}
ServiceLaterTranscripts == {JoinWords(<<WordBT>>)}

\* an event handled, with the recognition instance that emitted it: the one
\* of the last start(), or one that stop() has stopped
Event(type, transcript, verse) ==
    [type |-> type, transcript |-> transcript, verse |-> verse, instance |-> "current"]
StaleEvent(type, transcript, verse) ==
    [type |-> type, transcript |-> transcript, verse |-> verse, instance |-> "stopped"]

\* the engine is not in a call of its own during a session
EngineIdle ==
    /\ caller = "component"
    /\ pc = "idle"
    /\ expectedText = <<>>
    /\ transcribedText = <<>>
    /\ similarityThreshold = REPORT_THRESHOLD
    /\ expectedWords = <<>>
    /\ transcribedWords = <<>>
    /\ matchedWords = <<>>
    /\ unmatchedWords = <<>>
    /\ matchedCount = 0
    /\ totalWords = 0
    /\ k = 0
    /\ lastRemoved = -1
    /\ result = NoResult
    /\ results = <<>>
    /\ report = NoResult

SessionInit ==
    /\ impl \in Versions
    /\ EngineIdle
    /\ SessionIdle
    /\ WordsIdle
    /\ CallsIdle
    /\ LoadIdle

\* the toasts of the component
TOAST_STARTED == "Recording started"
TOAST_START_FAILED == "Failed to start recording. Please check microphone permissions."
\* (the emoji that ends the message is left out)
TOAST_PERFECT == "Perfect recitation detected!"
TOAST_GOOD == "Good recitation detected!"
TOAST_STOPPED == "Recording stopped"

\* startSilenceDetection: requiredSilenceFrames, the period of the interval,
\* the delay of the silence timer and the silence its callback asks for (ms)
REQUIRED_SILENCE_FRAMES == 15
CHECK_INTERVAL_MS == 300
CONFIRM_DELAY_MS == 1000
SILENCE_LIMIT_MS == 4000

\* the waits between two events that the runs take (ms): one period of the
\* interval, so that callers and the recognition act at the instants of its
\* callbacks, before them or after, and at those of the timer
Delays == {CHECK_INTERVAL_MS}

\* the clock readings that differ for the code: up to the limit, or beyond it
Elapsed(duration, delay) == Min2(duration + delay, SILENCE_LIMIT_MS + 1)

\* RealTranscriptionService.stop(); the closure variable silenceFrames and
\* lastSpeechTime are dead until the next start() and are reset here, as
\* are the due times of the cleared interval and timer
stop ==
    /\ isActive' = FALSE
    /\ recognition' = "null"
    /\ eventResults' = <<>>
    /\ audio' = FALSE
    /\ silenceTimer' = FALSE
    /\ silenceFrames' = 0
    /\ silenceDuration' = 0
    /\ intervalDue' = 0
    /\ timerDue' = 0
    /\ callback' = NoCallback
    /\ stale' = IF recognition # "null" THEN stale + 1 ELSE stale

----------------------------------------------------------------------------
(* Loading the reference text: GET of /api/quran (route.ts), fetchVerses,   *)
(* onSubmit, selectRandomVerse and the verse selector of the component.     *)

ZERO_WIDTH == {8203, 8204, 8205, 8288, 8292}
NEWLINE == 10
SPACE == 32
\* the white space and line terminators String.prototype.trim removes
WhiteSpace == {9, 10, 11, 12, 13, 32, 160, 5760, 8232, 8233, 8239, 8287, 12288, 65279}
                  \cup (8192..8202)

RECURSIVE TrimStart(_)
TrimStart(text) ==
    IF text # <<>> /\ Head(text) \in WhiteSpace THEN TrimStart(Tail(text)) ELSE text

RECURSIVE TrimEnd(_)
TrimEnd(text) ==
    IF text # <<>> /\ text[Len(text)] \in WhiteSpace
    THEN TrimEnd(SubSeq(text, 1, Len(text) - 1)) ELSE text

\* route.ts normalizeArabicText: zero-width characters removed, newlines
\* replaced with spaces, the result trimmed
normalizeArabicText(text) ==
    LET kept == SelectSeq(text, LAMBDA c : c \notin ZERO_WIDTH)
    IN TrimEnd(TrimStart([i \in 1..Len(kept) |-> IF kept[i] = NEWLINE THEN SPACE ELSE kept[i]]))

\* route.ts GET with a surah parameter: what the proxy answers for what
\* api.alquran.cloud answered (upstream.kind: "thrown", "not_ok", an OK
\* reply with a body code other than 200, or one with code 200 and ayahs)
GET(upstream) ==
    IF upstream.kind \in {"thrown", "not_ok"} THEN [kind |-> "not_ok"]
    ELSE IF upstream.kind = "code_200"
         THEN [kind  |-> "code_200",
               ayahs |-> [i \in 1..Len(upstream.ayahs) |->
                            IF upstream.ayahs[i] # <<>> THEN normalizeArabicText(upstream.ayahs[i])
                            ELSE upstream.ayahs[i]]]
         ELSE upstream

\* the hardcoded fallback of fetchVerses, lines 193-201: seven texts, each
\* stood for by its first two code units and its number (as stored in the
\* file they hold no character of the Arabic block)
AL_FATIHA == <<<<216, 168, 49>>, <<216, 167, 50>>, <<216, 167, 51>>, <<217, 8230, 52>>,
               <<216, 165, 53>>, <<216, 167, 54>>, <<216, 181, 55>>>>

\* Array.prototype.slice(from, to) for 0 <= from
Slice(seq, from, to) ==
    IF Min2(to, Len(seq)) <= from THEN <<>>
    ELSE SubSeq(seq, from + 1, Min2(to, Len(seq)))

\* a non-negative number in a template literal
RECURSIVE Decimal(_)
Decimal(n) == IF n < 10 THEN <<48 + n>> ELSE Append(Decimal(n \div 10), 48 + (n % 10))

\* line 206: the message returned as the only verse
CouldNotLoad(surah, startVerse) ==
    <<67, 111, 117, 108, 100, 32, 110, 111, 116, 32, 108, 111, 97, 100, 32, 83, 117, 114, 97, 104, 32>> \o Decimal(surah)
    \o <<44, 32, 86, 101, 114, 115, 101, 32>> \o Decimal(startVerse)
    \o <<46, 32, 80, 108, 101, 97, 115, 101, 32, 99, 104, 101, 99, 107, 32, 121, 111, 117, 114, 32, 105, 110, 116, 101, 114, 110, 101, 116, 32, 99, 111, 110, 110, 101, 99, 116, 105, 111, 110, 46>>

\* fetchVerses for what its fetch got: a rejected fetch and a non-OK status
\* end in the catch, a body with code 200 gives the ayah texts, any other
\* body the fallbacks
fetchVerses(surah, startVerse, endVerse, reply) ==
    IF reply.kind \in {"thrown", "not_ok"} THEN <<>>
    ELSE IF reply.kind = "code_200" THEN reply.ayahs
    ELSE IF surah = 1 THEN Slice(AL_FATIHA, startVerse - 1, endVerse)
    ELSE <<CouldNotLoad(surah, startVerse)>>

TOAST_LOAD_FAILED == "Failed to load verses. Please try again."
TOAST_RANDOM_FAILED == "Failed to load random verse. Please try again."
ToastLoaded(n) == "Successfully loaded " \o ToString(n) \o " verses"
ToastRandom(surah, verse) ==
    "Random verse selected: Surah " \o ToString(surah) \o ", Verse " \o ToString(verse)

Surahs == {1, 2}
AyahTexts == {JoinWords(<<WordBT>>), <<32, 1576, 8203, 1578, 10>>}

\* the passage recited in the sessions: two short words, three long words,
\* and a text without any Arabic word ("Co")
VerseShort == JoinWords(<<WordBT, WordBA>>)
VerseLong == JoinWords(<<WordLong, WordLong, WordLong>>)
VerseLatin == <<67, 111>>
SessionPassage == <<VerseShort, VerseLong, VerseLatin>>
\* the passage of the runs that follow the silence detection: one verse
ServicePassage == <<VerseLong>>

Upstream ==
    {[kind |-> "thrown"], [kind |-> "not_ok"], [kind |-> "code_not_200"]}
    \cup {[kind |-> "code_200", ayahs |-> a] :
             a \in UNION {[1..m -> AyahTexts] : m \in 0..MaxAyahs}}
    \cup {[kind |-> "code_200", ayahs |-> passage] : passage \in {SessionPassage, ServicePassage}}

\* what the page's fetch gets: it is rejected, or the proxy answers for what
\* the upstream answered
Replies == {[kind |-> "thrown"]} \cup {GET(upstream) : upstream \in Upstream}

\* the Load Verses form, onSubmit up to the await of fetchVerses:
\* setIsLoading(true) disables the form and the Random Verse button, and the
\* fetch for the chosen surah and verses is on its way
OnSubmit ==
    /\ mounted
    /\ ~isLoading
    /\ isLoading' = TRUE
    /\ \E surah \in Surahs, startVerse \in 1..MaxVerseNo, endVerse \in 1..MaxVerseNo :
          request' = [handler |-> "onSubmit", surah |-> surah,
                      startVerse |-> startVerse, endVerse |-> endVerse]
    /\ toasts' = <<>>
    /\ lastEvent' = Event("request", <<>>, <<>>)
    /\ UNCHANGED <<selectedVerse, isRecording, transcription, matchResults, accuracy,
                   isPerfectMatch, isActive, callback, startPending, recognition,
                   eventResults, heard, audio, silenceFrames, silenceTimer, silenceDuration, intervalDue, timerDue,
                   stale>>
    /\ UNCHANGED <<verses, response, mounted>>
    /\ UNCHANGED <<impl, engineVars, wordVars, callVars>>

\* the Random Verse button, selectRandomVerse up to the await: the surah and
\* the verse are drawn, and the fetch for them is on its way
SelectRandomVerse ==
    /\ mounted
    /\ ~isLoading
    /\ isLoading' = TRUE
    /\ \E surah \in Surahs, verse \in 1..MaxVerseNo :
          request' = [handler |-> "selectRandomVerse", surah |-> surah,
                      startVerse |-> verse, endVerse |-> verse]
    /\ toasts' = <<>>
    /\ lastEvent' = Event("request", <<>>, <<>>)
    /\ UNCHANGED <<selectedVerse, isRecording, transcription, matchResults, accuracy,
                   isPerfectMatch, isActive, callback, startPending, recognition,
                   eventResults, heard, audio, silenceFrames, silenceTimer, silenceDuration, intervalDue, timerDue,
                   stale>>
    /\ UNCHANGED <<verses, response, mounted>>
    /\ UNCHANGED <<impl, engineVars, wordVars, callVars>>

\* onSubmit after the await: fetchVerses has its answer; setVerses, then
\* setSelectedVerse with the success toast when a verse came, and
\* setIsLoading(false).  The state setters of an unmounted component do
\* nothing; the toast is shown
OnSubmitResolved ==
    /\ request # NoRequest
    /\ request.handler = "onSubmit"
    /\ \E reply \in Replies :
       \E fetchedVerses \in {fetchVerses(request.surah, request.startVerse,
                                         request.endVerse, reply)} :
          /\ response' = reply
          /\ toasts' = IF Len(fetchedVerses) > 0
                       THEN <<ToastLoaded(Len(fetchedVerses))>>
                       ELSE <<TOAST_LOAD_FAILED>>
          /\ IF mounted
             THEN /\ verses' = fetchedVerses
                  /\ selectedVerse' = IF Len(fetchedVerses) > 0 THEN fetchedVerses[1]
                                      ELSE selectedVerse
                  /\ isLoading' = FALSE
             ELSE UNCHANGED <<verses, selectedVerse, isLoading>>
    /\ request' = NoRequest
    /\ lastEvent' = Event("load", <<>>, <<>>)
    /\ UNCHANGED <<isRecording, transcription, matchResults, accuracy, isPerfectMatch,
                   isActive, callback, startPending, recognition, eventResults, heard,
                   audio, silenceFrames, silenceTimer, silenceDuration, intervalDue, timerDue, stale>>
    /\ UNCHANGED mounted
    /\ UNCHANGED <<impl, engineVars, wordVars, callVars>>

\* selectRandomVerse after the await
SelectRandomVerseResolved ==
    /\ request # NoRequest
    /\ request.handler = "selectRandomVerse"
    /\ \E reply \in Replies :
       \E fetchedVerses \in {fetchVerses(request.surah, request.startVerse,
                                         request.endVerse, reply)} :
          /\ response' = reply
          /\ toasts' = IF Len(fetchedVerses) > 0
                       THEN <<ToastRandom(request.surah, request.startVerse)>>
                       ELSE <<TOAST_RANDOM_FAILED>>
          /\ IF mounted
             THEN /\ verses' = fetchedVerses
                  /\ selectedVerse' = IF Len(fetchedVerses) > 0 THEN fetchedVerses[1]
                                      ELSE selectedVerse
                  /\ isLoading' = FALSE
             ELSE UNCHANGED <<verses, selectedVerse, isLoading>>
    /\ request' = NoRequest
    /\ lastEvent' = Event("load", <<>>, <<>>)
    /\ UNCHANGED <<isRecording, transcription, matchResults, accuracy, isPerfectMatch,
                   isActive, callback, startPending, recognition, eventResults, heard,
                   audio, silenceFrames, silenceTimer, silenceDuration, intervalDue, timerDue, stale>>
    /\ UNCHANGED mounted
    /\ UNCHANGED <<impl, engineVars, wordVars, callVars>>

\* the verse selector, shown when more than one verse is loaded:
\* setSelectedVerse(verses[index])
PickVerse ==
    /\ mounted
    /\ Len(verses) > 1
    /\ \E index \in 1..Len(verses) : selectedVerse' = verses[index]
    /\ toasts' = <<>>
    /\ lastEvent' = Event("select", <<>>, <<>>)
    /\ UNCHANGED <<isRecording, transcription, matchResults, accuracy, isPerfectMatch,
                   isActive, callback, startPending, recognition, eventResults, heard,
                   audio, silenceFrames, silenceTimer, silenceDuration, intervalDue, timerDue, stale>>
    /\ UNCHANGED <<impl, engineVars, wordVars, callVars, loadVars>>

\* the cleanup of the mount effect, lines 287-305: the component goes, the
\* transcription service is stopped; what the component held stays as it was
Unmount ==
    /\ mounted
    /\ mounted' = FALSE
    /\ stop
    /\ toasts' = <<>>
    /\ lastEvent' = Event("unmount", <<>>, <<>>)
    /\ UNCHANGED <<selectedVerse, isRecording, transcription, matchResults, accuracy,
                   isPerfectMatch, startPending, heard>>
    /\ UNCHANGED <<verses, response, isLoading, request>>
    /\ UNCHANGED <<impl, engineVars, wordVars, callVars>>

FetchNext ==
    \/ OnSubmit
    \/ OnSubmitResolved
    \/ SelectRandomVerse
    \/ SelectRandomVerseResolved
    \/ PickVerse
    \/ Unmount

SpecFetch == SessionInit /\ [][FetchNext]_vars

\* a session starts with a passage loaded through the form, its first verse
\* selected
Loaded(passage) ==
    /\ impl \in Versions
    /\ EngineIdle
    /\ WordsIdle
    /\ CallsIdle
    /\ isRecording = FALSE
    /\ transcription = <<>>
    /\ matchResults = <<>>
    /\ accuracy = FZero
    /\ isPerfectMatch = FALSE
    /\ isActive = FALSE
    /\ callback = NoCallback
    /\ startPending = 0
    /\ recognition = "null"
    /\ eventResults = <<>>
    /\ heard = <<>>
    /\ audio = FALSE
    /\ silenceFrames = 0
    /\ silenceTimer = FALSE
    /\ silenceDuration = 0
    /\ intervalDue = 0
    /\ timerDue = 0
    /\ stale = 0
    /\ mounted = TRUE
    /\ isLoading = FALSE
    /\ request = NoRequest
    /\ response = [kind |-> "code_200", ayahs |-> passage]
    /\ verses = passage
    /\ selectedVerse = passage[1]
    /\ toasts = <<ToastLoaded(Len(passage))>>
    /\ lastEvent = Event("load", <<>>, <<>>)

SessionLoaded == Loaded(SessionPassage)
ServiceLoaded == Loaded(ServicePassage)

----------------------------------------------------------------------------
(* Recording *)

\* the Start Recording button (in the card shown when verses are loaded),
\* startRecording up to the await inside realTranscriptionService.start:
\* the states are reset; an active service answers true at once; otherwise
\* the service becomes active with this render's handler, starts a new
\* recognition and awaits the microphone, whatever earlier calls still
\* await, or fails (no SpeechRecognition) and stops itself
StartRecording ==
    /\ mounted
    /\ Len(verses) > 0
    /\ ~isRecording
    /\ selectedVerse # <<>>
    /\ transcription' = <<>>
    /\ matchResults' = <<>>
    /\ accuracy' = FZero
    /\ isPerfectMatch' = FALSE
    /\ IF isActive
       THEN /\ isRecording' = TRUE
            /\ toasts' = <<TOAST_STARTED>>
            /\ UNCHANGED <<isActive, callback, startPending, recognition, eventResults,
                           heard, audio, silenceFrames, silenceTimer, silenceDuration, intervalDue, timerDue, stale>>
       ELSE /\ \E supported \in BOOLEAN :
                  IF supported
                  THEN /\ startPending < MaxPending
                       /\ stale < MaxInstances
                       /\ isActive' = TRUE
                       /\ callback' = [verse |-> selectedVerse]
                       /\ silenceDuration' = 0
                       /\ recognition' = "running"
                       /\ eventResults' = <<>>
                       /\ startPending' = startPending + 1
                       /\ toasts' = <<>>
                       /\ UNCHANGED <<audio, silenceFrames, silenceTimer, intervalDue,
                                      timerDue, stale>>
                  ELSE /\ stop
                       /\ UNCHANGED startPending
                       /\ toasts' = <<TOAST_START_FAILED>>
            /\ heard' = <<>>
            /\ UNCHANGED isRecording
    /\ lastEvent' = Event("start", <<>>, <<>>)
    /\ UNCHANGED selectedVerse
    /\ UNCHANGED <<impl, engineVars, wordVars, callVars, loadVars>>

\* setupAudioAnalysis of one of the awaiting calls is over (with the
\* microphone and the silence detection, or with its error swallowed),
\* start() resolves to true; setIsRecording(true), which does nothing once
\* the component is unmounted
StartRecordingResolved ==
    /\ startPending > 0
    /\ startPending' = startPending - 1
    /\ \E microphone \in BOOLEAN :
          IF microphone
          THEN audio' = TRUE /\ silenceFrames' = 0 /\ intervalDue' = CHECK_INTERVAL_MS
          ELSE UNCHANGED <<audio, silenceFrames, intervalDue>>
    /\ isRecording' = IF mounted THEN TRUE ELSE isRecording
    /\ toasts' = <<TOAST_STARTED>>
    /\ lastEvent' = Event("started", <<>>, <<>>)
    /\ UNCHANGED <<selectedVerse, transcription, matchResults, accuracy, isPerfectMatch,
                   isActive, callback, recognition, eventResults, heard, silenceTimer,
                   silenceDuration, timerDue, stale>>
    /\ UNCHANGED <<impl, engineVars, wordVars, callVars, loadVars>>

\* mutation: the whole result list is joined and delivered
TranscriptOfAll(list) == JoinWords(list)

\* onresult, lines 109-111: the transcript of the last result of the list
TranscriptOf(list) == list[Len(list)]

\* mutation: the perfect tier does not set the flag
PerfectFlagNever(allMatched, flag) == flag

\* lines 249-251: setIsPerfectMatch(true) in the allMatched branch only
PerfectFlag(allMatched, flag) == IF allMatched THEN TRUE ELSE flag

\* lines 249-256: the toasts of the update, stopRecording's included
UpdateToasts(allMatched, allWordsAboveThreshold) ==
    IF allMatched THEN <<TOAST_PERFECT, TOAST_STOPPED>>
    ELSE IF allWordsAboveThreshold THEN <<TOAST_GOOD, TOAST_STOPPED>>
    ELSE <<>>

\* the component's matchWords is a function of its arguments: its values on
\* the verses and transcripts of the sessions are computed once
MemoVerses == {SessionPassage[i] : i \in 1..Len(SessionPassage)}
MemoTranscripts == Transcripts \cup LaterTranscripts \cup ServiceTranscripts
                       \cup ServiceLaterTranscripts
componentMatchWordsMemo ==
    [version \in Versions |-> [expectedVerse \in MemoVerses |->
        [newTranscription \in MemoTranscripts |->
            componentMatchWords(version, expectedVerse, newTranscription)]]]

\* line 223: matchWords(selectedVerse, newTranscription)
matchWordsOf(version, expectedVerse, newTranscription) ==
    IF expectedVerse \in MemoVerses /\ newTranscription \in MemoTranscripts
    THEN componentMatchWordsMemo[version][expectedVerse][newTranscription]
    ELSE componentMatchWords(version, expectedVerse, newTranscription)

\* a result list with one more result: of a list longer than MaxSegments
\* the last MaxSegments results are kept (the code reads the last one only)
AddResult(list, segment) ==
    IF Len(list) < MaxSegments THEN Append(list, segment)
    ELSE Append(Tail(list), segment)

\* recognition.onresult -> callback -> handleTranscriptionUpdate, with
\* stopRecording and realTranscriptionService.stop when it is called.  The
\* recognition adds a result to its list, however long, or revises the last
\* one if there is one; the result at position 1 since start() is drawn from
\* first, the others from later.
OnResultOf(first, later) ==
    /\ isActive
    /\ recognition = "running"
    /\ callback # NoCallback
    /\ \E revise \in {r \in BOOLEAN : r => eventResults # <<>>} :
       \E segment \in (IF Len(heard) + (IF revise THEN 0 ELSE 1) = 1 THEN first ELSE later) :
       \E list \in {IF revise THEN [eventResults EXCEPT ![Len(eventResults)] = segment]
                    ELSE AddResult(eventResults, segment)} :
       \E newTranscription \in {TranscriptOf(list)} :
       \E res \in {matchWordsOf(impl, callback.verse, newTranscription)} :
       \E verseProgress \in {VerseProgress(Len(ExtractWords(newTranscription)),
                                           Len(ExtractWords(callback.verse)))} :
       \E allWordsAboveThreshold \in
              {AllWordsAboveThreshold(res.matchResults, newTranscription, verseProgress)} :
       \E allMatched \in {AllMatched(res.matchResults, newTranscription, verseProgress)} :
          /\ heard' = IF revise THEN [heard EXCEPT ![Len(heard)] = segment]
                      ELSE AddResult(heard, segment)
          /\ silenceDuration' = 0
          /\ IF callback.verse = <<>>
             THEN /\ eventResults' = list
                  /\ toasts' = <<>>
                  /\ UNCHANGED <<transcription, matchResults, accuracy, isPerfectMatch,
                                 isRecording, isActive, callback, recognition, audio,
                                 silenceFrames, silenceTimer, intervalDue, timerDue,
                                 stale>>
             ELSE /\ transcription' = newTranscription
                  /\ matchResults' = res.matchResults
                  /\ accuracy' = res.accuracy
                  /\ isPerfectMatch' = PerfectFlag(allMatched, isPerfectMatch)
                  /\ toasts' = UpdateToasts(allMatched, allWordsAboveThreshold)
                  /\ IF allMatched \/ allWordsAboveThreshold
                     THEN /\ isRecording' = FALSE
                          /\ stop
                     ELSE /\ eventResults' = list
                          /\ UNCHANGED <<isRecording, isActive, callback, recognition,
                                         audio, silenceFrames, silenceTimer, intervalDue,
                                         timerDue, stale>>
          /\ lastEvent' = Event("update", newTranscription, callback.verse)
    /\ UNCHANGED <<selectedVerse, startPending>>
    /\ UNCHANGED <<impl, engineVars, wordVars, callVars, loadVars>>

OnResult == OnResultOf(Transcripts, LaterTranscripts)

\* mutation: an ended recognition is left ended
OnEndNoRestart ==
    /\ recognition = "running"
    /\ recognition' = "ended"
    /\ eventResults' = <<>>
    /\ toasts' = <<>>
    /\ lastEvent' = Event("end", <<>>, <<>>)
    /\ UNCHANGED <<selectedVerse, isRecording, transcription, matchResults, accuracy,
                   isPerfectMatch, isActive, callback, startPending, heard, audio,
                   silenceFrames, silenceTimer, silenceDuration, intervalDue, timerDue, stale>>
    /\ UNCHANGED <<impl, engineVars, wordVars, callVars, loadVars>>

\* recognition.onend: the recognition has ended by itself; it is started
\* again if the service is active, with an empty result list
OnEnd ==
    /\ recognition = "running"
    /\ recognition' = IF isActive THEN "running" ELSE "ended"
    /\ eventResults' = <<>>
    /\ toasts' = <<>>
    /\ lastEvent' = Event("end", <<>>, <<>>)
    /\ UNCHANGED <<selectedVerse, isRecording, transcription, matchResults, accuracy,
                   isPerfectMatch, isActive, callback, startPending, heard, audio,
                   silenceFrames, silenceTimer, silenceDuration, intervalDue, timerDue, stale>>
    /\ UNCHANGED <<impl, engineVars, wordVars, callVars, loadVars>>

\* the Stop Recording button (in the card shown when verses are loaded):
\* stopRecording and realTranscriptionService.stop
StopRecording ==
    /\ mounted
    /\ Len(verses) > 0
    /\ isRecording
    /\ isRecording' = FALSE
    /\ stop
    /\ toasts' = <<TOAST_STOPPED>>
    /\ lastEvent' = Event("stop", <<>>, <<>>)
    /\ UNCHANGED <<selectedVerse, transcription, matchResults, accuracy, isPerfectMatch,
                   startPending, heard>>
    /\ UNCHANGED <<impl, engineVars, wordVars, callVars, loadVars>>

\* onend of a stopped instance, lines 126-135: when the service is active
\* this.recognition is the running instance of the last start(), whose
\* start() throws InvalidStateError into the catch; nothing changes
StaleEnd ==
    /\ stale > 0
    /\ stale' = stale - 1
    /\ toasts' = <<>>
    /\ lastEvent' = StaleEvent("end", <<>>, <<>>)
    /\ UNCHANGED <<selectedVerse, isRecording, transcription, matchResults, accuracy,
                   isPerfectMatch, isActive, callback, startPending, recognition,
                   eventResults, heard, audio, silenceFrames, silenceTimer, silenceDuration, intervalDue, timerDue>>
    /\ UNCHANGED <<impl, engineVars, wordVars, callVars, loadVars>>

SessionNext ==
    \/ PickVerse
    \/ StartRecording
    \/ StartRecordingResolved
    \/ OnResult
    \/ OnEnd
    \/ StaleEnd
    \/ StopRecording
    \/ Unmount

SpecSession == SessionLoaded /\ [][SessionNext]_vars

\* time passes by delay ms, no callback being due before its end: the clock
\* of the active service advances, the interval and the timer come nearer;
\* whatever happens next (a result, a click, the microphone, a callback that
\* is due) happens at the instant reached.  No handler runs: the last event
\* and its toasts stay
PassBy(delay) ==
    /\ isActive \/ audio
    /\ audio => intervalDue >= delay
    /\ silenceTimer => timerDue >= delay
    /\ silenceDuration' = IF isActive THEN Elapsed(silenceDuration, delay)
                          ELSE silenceDuration
    /\ intervalDue' = IF audio THEN intervalDue - delay ELSE intervalDue
    /\ timerDue' = IF silenceTimer THEN timerDue - delay ELSE timerDue
    /\ UNCHANGED <<selectedVerse, isRecording, transcription, matchResults, accuracy,
                   isPerfectMatch, isActive, callback, startPending, recognition,
                   eventResults, heard, audio, silenceFrames, silenceTimer, stale,
                   toasts, lastEvent>>
    /\ UNCHANGED <<impl, engineVars, wordVars, callVars, loadVars>>

Pass == \E delay \in Delays : PassBy(delay)

\* the setInterval callback of startSilenceDetection, run when it is due
\* (every 300 ms, and no later than the silence timer): it returns at once
\* unless the service is active with an analyzer; a frame with speech
\* resets the counters and clears the timer, a silent frame counts, and the
\* timer is set at the fifteenth silent frame in a row
SilenceTick ==
    /\ audio
    /\ silenceTimer => intervalDue <= timerDue
    /\ intervalDue' = CHECK_INTERVAL_MS
    /\ IF ~isActive
       THEN UNCHANGED <<silenceDuration, silenceFrames, silenceTimer, timerDue>>
       ELSE \E isSpeaking \in BOOLEAN :
               IF isSpeaking
               THEN /\ silenceDuration' = 0
                    /\ silenceFrames' = 0
                    /\ silenceTimer' = FALSE
                    /\ timerDue' = 0
               ELSE /\ silenceDuration' = Elapsed(silenceDuration, intervalDue)
                    /\ silenceFrames' = Min2(silenceFrames + 1, REQUIRED_SILENCE_FRAMES)
                    /\ silenceTimer' =
                           (silenceTimer \/ silenceFrames + 1 >= REQUIRED_SILENCE_FRAMES)
                    /\ timerDue' = IF silenceTimer THEN timerDue - intervalDue
                                   ELSE IF silenceFrames + 1 >= REQUIRED_SILENCE_FRAMES
                                   THEN CONFIRM_DELAY_MS
                                   ELSE 0
    /\ toasts' = <<>>
    /\ lastEvent' = Event("tick", <<>>, <<>>)
    /\ UNCHANGED <<selectedVerse, isRecording, transcription, matchResults, accuracy,
                   isPerfectMatch, isActive, callback, startPending, recognition,
                   eventResults, heard, audio, stale>>
    /\ UNCHANGED <<impl, engineVars, wordVars, callVars, loadVars>>

\* the setTimeout callback of the silence timer, run when it is due (1000 ms
\* after it was set, and no later than the interval): the service stops
\* itself if Date.now() - lastSpeechTime is more than 4000 ms; otherwise
\* the timer is reset
SilenceTimeout ==
    /\ silenceTimer
    /\ audio => timerDue <= intervalDue
    /\ IF Elapsed(silenceDuration, timerDue) > SILENCE_LIMIT_MS
       THEN stop
       ELSE /\ silenceTimer' = FALSE
            /\ timerDue' = 0
            /\ silenceDuration' = Elapsed(silenceDuration, timerDue)
            /\ intervalDue' = IF audio THEN intervalDue - timerDue ELSE intervalDue
            /\ UNCHANGED <<isActive, callback, recognition, eventResults, audio,
                           silenceFrames, stale>>
    /\ toasts' = <<>>
    /\ lastEvent' = Event("silence", <<>>, <<>>)
    /\ UNCHANGED <<selectedVerse, isRecording, transcription, matchResults, accuracy,
                   isPerfectMatch, startPending, heard>>
    /\ UNCHANGED <<impl, engineVars, wordVars, callVars, loadVars>>

\* the service with its silence detection, on few transcripts
OnResultService == OnResultOf(ServiceTranscripts, ServiceLaterTranscripts)

ServiceNext ==
    \/ StartRecording
    \/ StartRecordingResolved
    \/ OnResultService
    \/ OnEnd
    \/ Pass
    \/ SilenceTick
    \/ SilenceTimeout
    \/ StaleEnd
    \/ StopRecording
    \/ Unmount

SpecService == ServiceLoaded /\ [][ServiceNext]_vars

----------------------------------------------------------------------------
(* The events of a recognition instance that stop() has stopped: stop()     *)
(* leaves its onresult and onend handlers in place, and the instance may    *)
(* still deliver a result and then ends.                                    *)

\* mutation: onresult calls the handler without asking isActive and
\* this.callback
StaleResultUnguarded(segments) ==
    /\ stale > 0
    /\ selectedVerse # <<>>
    /\ \E newTranscription \in segments :
       \E res \in {matchWordsOf(impl, selectedVerse, newTranscription)} :
          /\ transcription' = newTranscription
          /\ matchResults' = res.matchResults
          /\ accuracy' = res.accuracy
          /\ lastEvent' = StaleEvent("update", newTranscription, selectedVerse)
    /\ toasts' = <<>>
    /\ UNCHANGED <<selectedVerse, isRecording, isPerfectMatch, isActive, callback,
                   startPending, recognition, eventResults, heard, audio, silenceFrames,
                   silenceTimer, silenceDuration, intervalDue, timerDue, stale>>
    /\ UNCHANGED <<impl, engineVars, wordVars, callVars, loadVars>>

\* onresult of a stopped instance, lines 106-120: the result is dropped when
\* the service is inactive; when the service is active (again) its callback
\* gets the transcript, as in OnResultOf
StaleResultOf(segments) ==
    /\ stale > 0
    /\ \E newTranscription \in segments :
          IF ~isActive \/ callback = NoCallback
          THEN /\ toasts' = <<>>
               /\ lastEvent' = StaleEvent("dropped", newTranscription, <<>>)
               /\ UNCHANGED <<transcription, matchResults, accuracy, isPerfectMatch,
                              isRecording, isActive, callback, recognition, eventResults,
                              audio, silenceFrames, silenceTimer, silenceDuration, intervalDue, timerDue, stale>>
          ELSE \E res \in {matchWordsOf(impl, callback.verse, newTranscription)} :
               \E verseProgress \in {VerseProgress(Len(ExtractWords(newTranscription)),
                                                   Len(ExtractWords(callback.verse)))} :
               \E allWordsAboveThreshold \in
                      {AllWordsAboveThreshold(res.matchResults, newTranscription, verseProgress)} :
               \E allMatched \in {AllMatched(res.matchResults, newTranscription, verseProgress)} :
                  /\ transcription' = newTranscription
                  /\ matchResults' = res.matchResults
                  /\ accuracy' = res.accuracy
                  /\ isPerfectMatch' = PerfectFlag(allMatched, isPerfectMatch)
                  /\ toasts' = UpdateToasts(allMatched, allWordsAboveThreshold)
                  /\ IF allMatched \/ allWordsAboveThreshold
                     THEN /\ isRecording' = FALSE
                          /\ stop
                     ELSE /\ silenceDuration' = 0
                          /\ UNCHANGED <<isRecording, isActive, callback, recognition,
                                         eventResults, audio, silenceFrames, silenceTimer,
                                         intervalDue, timerDue, stale>>
                  /\ lastEvent' = StaleEvent("update", newTranscription, callback.verse)
    /\ UNCHANGED <<selectedVerse, startPending, heard>>
    /\ UNCHANGED <<impl, engineVars, wordVars, callVars, loadVars>>

StaleResult == StaleResultOf(ServiceTranscripts)

InstancesNext ==
    \/ PickVerse
    \/ StartRecording
    \/ StartRecordingResolved
    \/ OnResultService
    \/ OnEnd
    \/ StaleResult
    \/ StaleEnd
    \/ StopRecording
    \/ Unmount

SpecInstances == SessionLoaded /\ [][InstancesNext]_vars

----------------------------------------------------------------------------
(* The word functions called on their own: calculateSimilarity and          *)
(* levenshteinDistance on two strings                                       *)

\* strings over beh, alef, alef with madda above and fatha
WordAlphabet == {1576, 1575, 1570, 1614}
Strings(n) == UNION {[1..m -> WordAlphabet] : m \in 0..n}

WordsInit ==
    /\ impl \in Versions
    /\ EngineIdle
    /\ SessionIdle
    /\ \/ argWord1 \in Strings(MaxWordLen) /\ argWord2 \in Strings(MaxOtherLen)
       \/ argWord1 \in Strings(MaxOtherLen) /\ argWord2 \in Strings(MaxWordLen)
    /\ wordsPc = "call"
    /\ returned = NoResult
    /\ CallsIdle
    /\ LoadIdle

\* wordMatchingService.calculateSimilarity(word1, word2)
CalculateSimilarity ==
    /\ wordsPc = "call"
    /\ returned' = [op |-> "calculateSimilarity",
                    value |-> calculateSimilarity(impl, argWord1, argWord2)]
    /\ wordsPc' = "done"
    /\ UNCHANGED <<impl, engineVars, sessionVars, callVars, loadVars, argWord1, argWord2>>

\* levenshteinDistance(a, b)
LevenshteinDistance ==
    /\ wordsPc = "call"
    /\ returned' = [op |-> "levenshteinDistance",
                    value |-> levenshteinDistance(impl, argWord1, argWord2)]
    /\ wordsPc' = "done"
    /\ UNCHANGED <<impl, engineVars, sessionVars, callVars, loadVars, argWord1, argWord2>>

WordsNext ==
    \/ CalculateSimilarity
    \/ LevenshteinDistance

SpecWords == WordsInit /\ [][WordsNext]_vars

\* words over every code point the normalization names, and the letter beh
NormalizeAlphabet == {DIACRITICS_FIRST, DIACRITICS_LAST, SUPERSCRIPT_ALEF, ALEF_MADDA,
                      ALEF_HAMZA_ABOVE, ALEF_HAMZA_BELOW, ALEF, ALEF_MAKSURA, YEH, 1576}

NormalizeInit ==
    /\ impl \in Versions
    /\ EngineIdle
    /\ SessionIdle
    /\ argWord1 \in UNION {[1..m -> NormalizeAlphabet] : m \in 0..MaxNormalizeLen}
    /\ argWord2 = <<>>
    /\ wordsPc = "call"
    /\ returned = NoResult
    /\ CallsIdle
    /\ LoadIdle

\* normalizeArabic(text)
NormalizeArabic ==
    /\ wordsPc = "call"
    /\ returned' = [op |-> "normalizeArabic", value |-> normalizeArabic(argWord1)]
    /\ wordsPc' = "done"
    /\ UNCHANGED <<impl, engineVars, sessionVars, callVars, loadVars, argWord1, argWord2>>

NormalizeNext == NormalizeArabic

SpecNormalize == NormalizeInit /\ [][NormalizeNext]_vars

----------------------------------------------------------------------------
(* Repeated calls of matchWords on the singleton and on another instance.  *)
(* The class has no instance fields; the state the calls share is the       *)
(* lastIndex of the static regular expression (part_003 line 22), a global  *)
(* one. The arguments are two strings and a number, values a call cannot    *)
(* change.                                                                   *)

\* mutation: the words are taken with RegExp.exec, one match from lastIndex
\* on, which leaves lastIndex at the end of the match (0 when none is found)
RegexMatchExec(text, from) ==
    LET starts == {i \in (from + 1)..Len(text) : IsArabic(text[i])}
    IN IF starts = {} THEN [words |-> <<>>, lastIndex |-> 0]
       ELSE LET first == CHOOSE i \in starts : \A j \in starts : i <= j
                last  == CHOOSE j \in first..Len(text) :
                             /\ \A m \in first..j : IsArabic(text[m])
                             /\ (j = Len(text) \/ ~IsArabic(text[j + 1]))
            IN [words |-> <<SubSeq(text, first, last)>>, lastIndex |-> last]

\* text.match(regex) with a global regex: String.prototype.match sets
\* lastIndex to 0, collects every match, and the failed last search leaves 0
RegexMatch(text, from) == [words |-> ExtractWords(text), lastIndex |-> 0]

\* the for-of loop over transcribedWords, from word i on
RECURSIVE MatchLoop(_, _, _, _, _)
MatchLoop(version, st, tWords, i, threshold) ==
    IF i > Len(tWords) THEN st
    ELSE MatchLoop(version, ProcessWord(version, st, tWords[i], threshold), tWords, i + 1, threshold)

Thrown == [thrown |-> TRUE]

\* matchWords as one call: the value returned (or Thrown) and the lastIndex
\* the call leaves in the static regex; part_002 builds its regex in the call
matchWordsCall(version, expected, transcribed, threshold, from) ==
    IF ThresholdRejected(version, threshold)
    THEN [value |-> Thrown, lastIndex |-> from]
    ELSE LET e  == RegexMatch(expected, IF version = "part_003" THEN from ELSE 0)
             t  == RegexMatch(transcribed, e.lastIndex)
             st == MatchLoop(version,
                             [matchedWords |-> <<>>, unmatchedWords |-> e.words,
                              matchedCount |-> 0, bestMatchIndex |-> -1],
                             t.words, 1, threshold)
         IN [value     |-> MakeResult(st.matchedWords, st.unmatchedWords,
                                      st.matchedCount, Len(e.words)),
             lastIndex |-> IF version = "part_003" THEN t.lastIndex ELSE from]

Instances == {"wordMatchingService", "other"}
CallTexts == {JoinWords(<<WordBT, WordTB>>), JoinWords(<<WordTB>>),
              <<65, 1576, 1614, 1578, 1548, 66, 1576, 1578, 1575>>}

CallsInit ==
    /\ impl \in Versions
    /\ EngineIdle
    /\ SessionIdle
    /\ WordsIdle
    /\ CallsIdle
    /\ LoadIdle

\* instance.matchWords(expectedText, transcribedText)
MatchWordsCall ==
    /\ Len(calls) < MaxCalls
    /\ \E instance \in Instances, expected \in CallTexts, transcribed \in CallTexts :
         \E r \in {matchWordsCall(impl, expected, transcribed,
                                  DEFAULT_SIMILARITY_THRESHOLD, lastIndex)} :
            /\ calls' = Append(calls, [instance            |-> instance,
                                       expectedText        |-> expected,
                                       transcribedText     |-> transcribed,
                                       similarityThreshold |-> DEFAULT_SIMILARITY_THRESHOLD,
                                       value               |-> r.value])
            /\ lastIndex' = r.lastIndex
    /\ UNCHANGED <<impl, engineVars, sessionVars, wordVars, loadVars>>

CallsNext == MatchWordsCall

SpecCalls == CallsInit /\ [][CallsNext]_vars

----------------------------------------------------------------------------
(* Vocabulary of the properties *)

ThresholdInRange == FLeq(FZero, similarityThreshold) /\ FLeq(similarityThreshold, FOne)

\* the call got past validation and extraction
Entered == pc \in {"loop", "report", "done"}

Count(w, seq) == Cardinality({i \in 1..Len(seq) : seq[i] = w})

Range(seq) == {seq[i] : i \in 1..Len(seq)}

RECURSIVE IsSubseq(_, _)
IsSubseq(s, t) ==
    IF s = <<>> THEN TRUE
    ELSE IF t = <<>> THEN FALSE
    ELSE IF Head(s) = Head(t) THEN IsSubseq(Tail(s), Tail(t))
    ELSE IsSubseq(s, Tail(t))

IsPrefix(s, t) == Len(s) <= Len(t) /\ \A i \in 1..Len(s) : s[i] = t[i]

\* seq without its element at the 1-based position i
RemoveAt(seq, i) == SubSeq(seq, 1, i - 1) \o SubSeq(seq, i + 1, Len(seq))

----------------------------------------------------------------------------
(* C1: for a threshold in [0,1], after every processed candidate word and   *)
(* in the returned result, matchedWords and unmatchedWords together hold    *)
(* exactly the reference words as a multiset, unmatchedWords keeps the      *)
(* reference order, matchedCount = len(matchedWords) and                    *)
(* matchedCount + len(unmatchedWords) = totalWords = number of reference    *)
(* words.                                                                   *)
C1_Partition ==
    (ThresholdInRange /\ Entered) =>
        /\ \A w \in Range(expectedWords) \cup Range(matchedWords) \cup Range(unmatchedWords) :
              Count(w, matchedWords) + Count(w, unmatchedWords) = Count(w, expectedWords)
        /\ IsSubseq(unmatchedWords, expectedWords)
        /\ matchedCount = Len(matchedWords)
        /\ matchedCount + Len(unmatchedWords) = totalWords
        /\ totalWords = Len(expectedWords)
        /\ result # NoResult =>
              /\ result.matchedWords = matchedWords
              /\ result.unmatchedWords = unmatchedWords
              /\ result.matchedCount = matchedCount
              /\ result.totalWords = totalWords

\* a returned result with both a consumed and a left-over reference word,
\* the consumed word not being the first of the reference
C1_Witness ==
    /\ pc = "done" /\ caller = "service" /\ ThresholdInRange
    /\ result # NoResult
    /\ result.matchedCount >= 1
    /\ Len(result.unmatchedWords) >= 1
    /\ result.unmatchedWords[1] = expectedWords[1]
    /\ result.matchedWords[1] # transcribedWords[1]

(* C2: matching is without replacement: a candidate word removes at most    *)
(* one pool entry, what was removed stays removed (the pool only shrinks,   *)
(* matchedWords only grows), matchedCount never exceeds the number of       *)
(* reference words nor the number of candidate words processed, and         *)
(* reference [X, X] with candidate [X] gives matchedCount 1 (at any         *)
(* threshold in [0,1]).                                                     *)
C2_WithoutReplacement ==
    [][ /\ (pc = "loop" /\ k' = k + 1) =>
              /\ Len(unmatchedWords') >= Len(unmatchedWords) - 1
              /\ IsSubseq(unmatchedWords', unmatchedWords)
              /\ IsPrefix(matchedWords, matchedWords')
              /\ matchedCount' <= matchedCount + 1
              /\ matchedCount' <= k'
              /\ matchedCount' <= Len(expectedWords)
        /\ result' # NoResult =>
              /\ result'.matchedCount <= Len(expectedWords)
              /\ result'.matchedCount <= Len(transcribedWords)
              /\ (ThresholdInRange /\ Len(expectedWords) = 2
                  /\ expectedWords[1] = expectedWords[2]
                  /\ transcribedWords = <<expectedWords[1]>>) => result'.matchedCount = 1
      ]_vars

\* two identical reference words, a single identical candidate word
C2_Witness ==
    /\ pc = "done"
    /\ expectedWords = <<WordBT, WordBT>>
    /\ transcribedWords = <<WordBT>>
    /\ result # NoResult
    /\ result.matchedCount = 1
    /\ result.unmatchedWords = <<WordBT>>

(* C3: for a threshold in [0,1], each loop iteration removes the pool entry *)
(* with the highest similarity to the candidate word among those with       *)
(* similarity >= threshold (earliest position on ties) and appends it to    *)
(* matchedWords; an entry is removed whenever some pool entry has           *)
(* similarity >= threshold, and nothing is removed otherwise.               *)
C3_BestEligibleRemoved ==
    [][ (pc = "loop" /\ k' = k + 1 /\ ThresholdInRange) =>
          LET w == transcribedWords[k + 1]
              sim(i) == calculateSimilarity(impl, unmatchedWords[i], w)
              Eligible == {i \in 1..Len(unmatchedWords) : FLeq(similarityThreshold, sim(i))}
          IN IF Eligible # {}
             THEN LET best == CHOOSE i \in Eligible :
                                 \A j \in Eligible :
                                    FLt(sim(j), sim(i)) \/ (FEq(sim(j), sim(i)) /\ i <= j)
                  IN /\ unmatchedWords' = RemoveAt(unmatchedWords, best)
                     /\ matchedWords' = Append(matchedWords, unmatchedWords[best])
             ELSE /\ unmatchedWords' = unmatchedWords
                  /\ matchedWords' = matchedWords
      ]_vars

(* C4: with a threshold below 0 or above 1 the call signals an error and    *)
(* produces no result.                                                      *)
C4_OutOfRangeThrows ==
    (~ThresholdInRange /\ pc # "call") => (pc = "thrown" /\ result = NoResult)

(* C5: perfectMatch is true exactly when accuracy >= 0.9 and                *)
(* matchedCount >= 0.9 x totalWords; the first condition implies the        *)
(* second, so perfectMatch holds iff totalWords > 0 and                     *)
(* 10 x matchedCount >= 9 x totalWords.                                     *)
C5_PerfectMatch ==
    result # NoResult =>
        LET first == 10 * result.accuracy[1] >= 9 * result.accuracy[2]
            second == 10 * result.matchedCount >= 9 * result.totalWords
        IN /\ result.perfectMatch <=> (first /\ second)
           /\ first => second
           /\ result.perfectMatch <=>
                 (result.totalWords > 0 /\ 10 * result.matchedCount >= 9 * result.totalWords)

\* nine of ten reference words matched: exactly on the boundary
C5_Witness ==
    /\ result # NoResult
    /\ result.totalWords = 10
    /\ result.matchedCount = 9
    /\ result.perfectMatch

(* C6: accuracy is matchedCount / totalWords when totalWords > 0 and 0 when *)
(* totalWords = 0; 0 <= matchedCount <= totalWords and accuracy is in [0,1].*)
C6_Accuracy ==
    result # NoResult =>
        /\ result.totalWords > 0 =>
              /\ result.accuracy[2] > 0
              /\ result.accuracy[1] * result.totalWords = result.matchedCount * result.accuracy[2]
        /\ result.totalWords = 0 => (result.accuracy[2] > 0 /\ result.accuracy[1] = 0)
        /\ 0 <= result.matchedCount /\ result.matchedCount <= result.totalWords
        /\ FLeq(FZero, result.accuracy) /\ FLeq(result.accuracy, FOne)

\* a result strictly between 0 and 1
C6_Witness ==
    /\ result # NoResult
    /\ result.totalWords = 3
    /\ result.matchedCount = 2
    /\ FEq(result.accuracy, Frac(2, 3))

(* C7: with a threshold in [0,1], degenerate inputs give results and never  *)
(* an error: no reference words => accuracy 0, matchedCount 0, perfectMatch *)
(* false, both lists empty, whatever the candidate; no candidate words =>   *)
(* every reference word unmatched, matchedCount 0, accuracy 0, perfectMatch *)
(* false.                                                                   *)
C7_Degenerate ==
    (ThresholdInRange /\ pc # "call") =>
        \A refs \in {ExtractWords(expectedText)} :
        \A cands \in {ExtractWords(transcribedText)} :
           /\ (refs = <<>> \/ cands = <<>>) =>
                 (pc # "thrown" /\ (pc \in {"report", "done"} => result # NoResult))
           /\ (result # NoResult /\ refs = <<>>) =>
                 /\ FEq(result.accuracy, FZero)
                 /\ result.matchedCount = 0
                 /\ result.perfectMatch = FALSE
                 /\ result.matchedWords = <<>>
                 /\ result.unmatchedWords = <<>>
           /\ (result # NoResult /\ cands = <<>>) =>
                 /\ result.unmatchedWords = refs
                 /\ result.matchedWords = <<>>
                 /\ result.matchedCount = 0
                 /\ FEq(result.accuracy, FZero)
                 /\ result.perfectMatch = FALSE

\* no reference word, two candidate words, a result
C7_Witness ==
    /\ pc = "done"
    /\ ExtractWords(expectedText) = <<>>
    /\ Len(ExtractWords(transcribedText)) = 2
    /\ result # NoResult
    /\ result.totalWords = 0

(* C8: the reporting view produces one record per reference word, in       *)
(* reference order; a record's ratio is the maximum similarity of its word  *)
(* over all candidate words (0 when there is none), its bestMatch is the    *)
(* first candidate attaining that maximum ('not found' when the maximum is  *)
(* 0), also below the threshold, and matched is true iff ratio >= 0.6.      *)
C8_ReportingView ==
    (caller = "component" /\ pc \in {"report", "done"}) =>
        /\ Len(results) <= Len(expectedWords)
        /\ pc = "done" => (Len(results) = Len(expectedWords) /\ report # NoResult
                           /\ report.matchResults = results)
        /\ \A refs \in {ExtractWords(expectedText)} :
           \A cands \in {ExtractWords(transcribedText)} :
           \A i \in 1..Len(results) :
           \A r \in {results[i]} :
           \A sim \in {[j \in 1..Len(cands) |-> calculateSimilarity(impl, refs[i], cands[j])]} :
              /\ r.expectedWord = refs[i]
              /\ \A j \in 1..Len(cands) : FLeq(sim[j], r.ratio)
              /\ IF cands = <<>> THEN FEq(r.ratio, FZero)
                 ELSE \E j \in 1..Len(cands) : FEq(sim[j], r.ratio)
              /\ IF FLt(FZero, r.ratio)
                 THEN \E j \in 1..Len(cands) :
                         /\ r.bestMatch = cands[j]
                         /\ FEq(sim[j], r.ratio)
                         /\ \A j2 \in 1..(j - 1) : FLt(sim[j2], r.ratio)
                 ELSE r.bestMatch = NotFound
              /\ r.matched <=> FLeq(Frac(6, 10), r.ratio)

\* a returned report holding a pair recorded below the threshold
C8_Witness ==
    /\ pc = "done" /\ caller = "component" /\ report # NoResult
    /\ \E i \in 1..Len(report.matchResults) :
          /\ FLt(FZero, report.matchResults[i].ratio)
          /\ FLt(report.matchResults[i].ratio, Frac(6, 10))
          /\ report.matchResults[i].bestMatch \in Range(transcribedWords)
          /\ ~report.matchResults[i].matched

(* C9: the reporting view never consumes candidates: the candidate list is  *)
(* the same for every reference word, records already produced stay, equal  *)
(* reference words get equal records, and reference [X, X] with candidate   *)
(* [X] gives two matched records while the consumption view gives           *)
(* matchedCount 1.                                                          *)
C9_NoConsumption ==
    [][ (caller = "component" /\ pc = "report") =>
          /\ transcribedWords' = transcribedWords
          /\ transcribedWords' = ExtractWords(transcribedText)
          /\ IsPrefix(results, results')
          /\ \A i, j \in 1..Len(results') :
                expectedWords[i] = expectedWords[j] =>
                   /\ results'[i].bestMatch = results'[j].bestMatch
                   /\ results'[i].ratio = results'[j].ratio
                   /\ results'[i].matched = results'[j].matched
          /\ (pc' = "done" /\ Len(expectedWords) = 2 /\ expectedWords[1] = expectedWords[2]
              /\ transcribedWords = <<expectedWords[1]>>) =>
                /\ report'.matchResults[1].matched /\ report'.matchResults[2].matched
                /\ report'.matchResults[1].bestMatch = expectedWords[1]
                /\ report'.matchResults[2].bestMatch = expectedWords[1]
                /\ result.matchedCount = 1
      ]_vars

\* reference [X, X], candidate [X]: two matched records, one consumed word
C9_Witness ==
    /\ pc = "done" /\ caller = "component" /\ report # NoResult
    /\ expectedWords = <<WordBT, WordBT>>
    /\ transcribedWords = <<WordBT>>
    /\ Len(report.matchResults) = 2
    /\ report.matchResults[1].matched /\ report.matchResults[2].matched
    /\ result.matchedCount = 1

(* C10: a transcript update stops recording or sets the perfect-match flag  *)
(* only if, for that update, at least one match record exists, the          *)
(* transcript is longer than 10 characters and the candidate word count     *)
(* divided by the reference word count is at least 0.9.                     *)
C10_CompletionGates ==
    [][ (lastEvent'.type = "update"
         /\ \/ isRecording /\ ~isRecording'
            \/ isActive /\ ~isActive'
            \/ ~isPerfectMatch /\ isPerfectMatch') =>
          LET candidateWords == ExtractWords(lastEvent'.transcript)
              referenceWords == ExtractWords(lastEvent'.verse)
          IN /\ transcription' = lastEvent'.transcript
             /\ Len(matchResults') >= 1
             /\ Len(lastEvent'.transcript) > 10
             /\ Len(referenceWords) > 0
             /\ 10 * Len(candidateWords) >= 9 * Len(referenceWords)
      ]_vars

\* an update completed the recitation as perfect and stopped the service
C10_Witness ==
    /\ lastEvent.type = "update"
    /\ isPerfectMatch
    /\ ~isRecording /\ ~isActive /\ callback = NoCallback
    /\ Len(matchResults) = 3
    /\ Len(transcription) > 10

----------------------------------------------------------------------------
(* Vocabulary of the session properties *)

\* the gates of an update: a record exists, more than 10 characters, and at
\* least nine candidate words for every ten reference words
GatesHold(recs, transcript, verse) ==
    /\ Len(recs) > 0
    /\ Len(transcript) > 10
    /\ 10 * Len(ExtractWords(transcript)) >= 9 * Len(ExtractWords(verse))

EveryMatched(recs) == \A i \in 1..Len(recs) : recs[i].matched
EveryRatioGood(recs) == \A i \in 1..Len(recs) : FLeq(Frac(45, 100), recs[i].ratio)
Shown(toast, list) == \E i \in 1..Len(list) : list[i] = toast

(* C11: on a transcript update whose gates are satisfied, 'perfect' is      *)
(* reported iff every match record is matched, 'good' is reported iff every *)
(* record's ratio is at least 0.45 and the update is not perfect, the       *)
(* perfect-match flag is set exactly in the perfect case, and an update     *)
(* whose records are all matched has all ratios at least 0.45; the flag     *)
(* is never set by anything but a perfect update.                           *)
C11_Tiers ==
    [][ /\ (lastEvent'.type = "update"
            /\ GatesHold(matchResults', lastEvent'.transcript, lastEvent'.verse)) =>
              /\ Shown(TOAST_PERFECT, toasts') <=> EveryMatched(matchResults')
              /\ Shown(TOAST_GOOD, toasts') <=>
                     (EveryRatioGood(matchResults') /\ ~EveryMatched(matchResults'))
              /\ isPerfectMatch' <=> EveryMatched(matchResults')
              /\ EveryMatched(matchResults') => EveryRatioGood(matchResults')
        /\ (~isPerfectMatch /\ isPerfectMatch') =>
              (lastEvent'.type = "update" /\ Shown(TOAST_PERFECT, toasts'))
      ]_vars

\* an update was reported good and not perfect: a record below 0.6 but at
\* least 0.45, and the recording stopped
C11_Witness ==
    /\ lastEvent.type = "update"
    /\ toasts = <<TOAST_GOOD, TOAST_STOPPED>>
    /\ ~isPerfectMatch
    /\ ~isRecording
    /\ \E i \in 1..Len(matchResults) : ~matchResults[i].matched

(* C12: the transcript handed to the session handler on an update holds the *)
(* words of all recognition results since recording started, not only       *)
(* those of the newest result.                                              *)
C12_WholeTranscript ==
    [][ lastEvent'.type = "update" =>
          ExtractWords(lastEvent'.transcript) = ExtractWords(JoinWords(heard'))
      ]_vars

(* C13: the service goes from active to inactive only through a stop        *)
(* issued by the caller (the Stop button, the handler completing the        *)
(* recitation, or the cleanup of the unmounting component), and a           *)
(* recognition that ends while the service is active is started again.      *)
C13_OnlyCallerStops ==
    [][ /\ (isActive /\ ~isActive') => lastEvent'.type \in {"stop", "update", "unmount"}
        /\ (lastEvent'.type = "end" /\ isActive) => (isActive' /\ recognition' = "running")
      ]_vars

(* C13 as amended: the service goes from active to inactive only through a  *)
(* stop issued by the caller or through its own silence timer, which is set *)
(* at the fifteenth silent frame in a row, fires one second later and then  *)
(* stops the service if the clock is more than 4000 ms past the last speech *)
(* time; a recognition that ends while the service is active is started     *)
(* again.                                                                   *)
C13_CallerOrSilenceStops ==
    [][ /\ (isActive /\ ~isActive') =>
              \/ lastEvent'.type \in {"stop", "update", "unmount"}
              \/ /\ lastEvent'.type = "silence"
                 /\ silenceTimer
                 /\ Elapsed(silenceDuration, timerDue) > SILENCE_LIMIT_MS
        /\ (~silenceTimer /\ silenceTimer') =>
              /\ lastEvent'.type = "tick"
              /\ silenceFrames' >= REQUIRED_SILENCE_FRAMES
              /\ timerDue' = CONFIRM_DELAY_MS
        /\ (lastEvent'.type = "end" /\ isActive) => (isActive' /\ recognition' = "running")
      ]_vars

\* the recognition ended after a result and was started again
C13_Witness ==
    /\ lastEvent.type = "end"
    /\ isActive
    /\ recognition = "running"
    /\ heard # <<>>
    /\ eventResults = <<>>

----------------------------------------------------------------------------
(* Vocabulary of the word-function properties *)

SimilarityCalled == wordsPc = "done" /\ returned.op = "calculateSimilarity"
DistanceCalled == wordsPc = "done" /\ returned.op = "levenshteinDistance"

\* the length of a shortest edit script from a to b: its first step deletes
\* the head of a, inserts the head of b, or keeps or substitutes the head
RECURSIVE EditDistance(_, _)
EditDistance(a, b) ==
    IF a = <<>> THEN Len(b)
    ELSE IF b = <<>> THEN Len(a)
    ELSE Min3(EditDistance(Tail(a), b) + 1,
              EditDistance(a, Tail(b)) + 1,
              EditDistance(Tail(a), Tail(b)) + (IF Head(a) = Head(b) THEN 0 ELSE 1))

(* C14: for non-empty words, calculateSimilarity returns 1.0 exactly when   *)
(* the two words are equal as given, and strictly less than 1.0 for any two *)
(* different words, those equal after normalization included.               *)
C14_OneIffEqual ==
    (SimilarityCalled /\ argWord1 # <<>> /\ argWord2 # <<>>) =>
        /\ FEq(returned.value, FOne) <=> (argWord1 = argWord2)
        /\ (argWord1 # argWord2) => FLt(returned.value, FOne)

\* two different words that are equal after normalization scored below 1.0
C14_Witness ==
    /\ SimilarityCalled
    /\ argWord1 # argWord2
    /\ normalizeArabic(argWord1) = normalizeArabic(argWord2)
    /\ Len(normalizeArabic(argWord1)) = 2
    /\ FLt(returned.value, FOne)

(* C15: calculateSimilarity returns 0.0 whenever one of the two words is    *)
(* empty, the pair of two empty words included.                             *)
C15_EmptyIsZero ==
    (SimilarityCalled /\ (argWord1 = <<>> \/ argWord2 = <<>>)) =>
        FEq(returned.value, FZero)

(* C15 as amended: calculateSimilarity returns 0.0 whenever exactly one of  *)
(* the two words is empty, and 1.0 for the pair of two empty words.         *)
C15_OneEmptyIsZero ==
    /\ (SimilarityCalled /\ (argWord1 = <<>>) # (argWord2 = <<>>)) =>
           FEq(returned.value, FZero)
    /\ (SimilarityCalled /\ argWord1 = <<>> /\ argWord2 = <<>>) =>
           FEq(returned.value, FOne)

\* an empty word against a word of three letters scored 0.0
C15_Witness ==
    /\ SimilarityCalled
    /\ argWord1 = <<>>
    /\ Len(argWord2) = 3
    /\ FEq(returned.value, FZero)

(* C16: the value of calculateSimilarity lies in [0,1] for all words, and   *)
(* the distance between the normalized forms is at most the longer          *)
(* normalized length.                                                       *)
C16_Bounded ==
    SimilarityCalled =>
        /\ returned.value[2] > 0
        /\ FLeq(FZero, returned.value)
        /\ FLeq(returned.value, FOne)
        /\ levenshteinDistance(impl, normalizeArabic(argWord1), normalizeArabic(argWord2))
              <= Max2(Len(normalizeArabic(argWord1)), Len(normalizeArabic(argWord2)))

\* two words of different lengths without a common letter scored 0.0
C16_Witness ==
    /\ SimilarityCalled
    /\ Len(normalizeArabic(argWord1)) = 1
    /\ Len(normalizeArabic(argWord2)) = 3
    /\ FEq(returned.value, FZero)

(* C17: for different non-empty words, calculateSimilarity is exactly 0.9   *)
(* when the normalized forms are equal, and otherwise                       *)
(* 1 - distance / max length over the normalized forms, distance being the  *)
(* length of a shortest edit script.                                        *)
C17_Formula ==
    (SimilarityCalled /\ argWord1 # <<>> /\ argWord2 # <<>> /\ argWord1 # argWord2) =>
        LET normalizedA == normalizeArabic(argWord1)
            normalizedB == normalizeArabic(argWord2)
            maxLength == Max2(Len(normalizedA), Len(normalizedB))
        IN IF normalizedA = normalizedB
           THEN returned.value = Frac(9, 10)
           ELSE /\ maxLength > 0
                /\ FEq(returned.value,
                       OneMinusQuotient(EditDistance(normalizedA, normalizedB), maxLength))

\* a word with a diacritic against a word of two letters: one edit in two letters
C17_Witness ==
    /\ SimilarityCalled
    /\ Len(argWord1) = 3
    /\ Len(normalizeArabic(argWord1)) = 2
    /\ Len(normalizeArabic(argWord2)) = 2
    /\ FEq(returned.value, Frac(1, 2))

(* C18: for two different non-empty words whose normalized forms are both   *)
(* empty, calculateSimilarity returns 0.                                    *)
C18_DiacriticsOnlyZero ==
    (SimilarityCalled /\ argWord1 # <<>> /\ argWord2 # <<>> /\ argWord1 # argWord2
       /\ normalizeArabic(argWord1) = <<>> /\ normalizeArabic(argWord2) = <<>>) =>
        FEq(returned.value, FZero)

(* C18 as amended: for two different non-empty words whose normalized forms *)
(* are both empty, calculateSimilarity returns 0.9, the value of words      *)
(* equal after normalization.                                               *)
C18_DiacriticsOnlyBonus ==
    (SimilarityCalled /\ argWord1 # <<>> /\ argWord2 # <<>> /\ argWord1 # argWord2
       /\ normalizeArabic(argWord1) = <<>> /\ normalizeArabic(argWord2) = <<>>) =>
        FEq(returned.value, NORMALIZED_MATCH_SIMILARITY)

\* one fatha against two
C18_Witness ==
    /\ SimilarityCalled
    /\ Len(argWord1) = 1
    /\ Len(argWord2) = 2
    /\ normalizeArabic(argWord1) = <<>>
    /\ normalizeArabic(argWord2) = <<>>
    /\ FEq(returned.value, NORMALIZED_MATCH_SIMILARITY)

(* C19: calculateSimilarity is symmetric: the value returned for (a, b) is  *)
(* the value of calculateSimilarity(b, a).                                  *)
C19_Symmetric ==
    SimilarityCalled =>
        FEq(returned.value, calculateSimilarity(impl, argWord2, argWord1))

\* words of different normalized lengths with a score strictly inside (0,1)
C19_Witness ==
    /\ SimilarityCalled
    /\ Len(normalizeArabic(argWord1)) < Len(normalizeArabic(argWord2))
    /\ FLt(FZero, returned.value)
    /\ FLt(returned.value, NORMALIZED_MATCH_SIMILARITY)

(* C20: levenshteinDistance, in both implementations, returns the length of *)
(* a shortest script of single-character insertions, deletions and          *)
(* substitutions from a to b; the two implementations agree, and            *)
(* distance(a, a) = 0, distance(a, "") = len(a), distance("", "") = 0 and   *)
(* distance(a, b) = distance(b, a).                                         *)
C20_MinimumEdits ==
    DistanceCalled =>
        /\ returned.value = EditDistance(argWord1, argWord2)
        /\ levenshteinDistanceRows(argWord1, argWord2) = levenshteinDistanceMatrix(argWord1, argWord2)
        /\ returned.value = levenshteinDistance(impl, argWord2, argWord1)
        /\ (argWord1 = argWord2) => returned.value = 0
        /\ (argWord2 = <<>>) => returned.value = Len(argWord1)
        /\ (argWord1 = <<>>) => returned.value = Len(argWord2)

\* three letters against two with nothing in common: two substitutions and
\* a deletion
C20_Witness ==
    /\ DistanceCalled
    /\ Len(argWord1) = 3
    /\ Len(argWord2) = 2
    /\ returned.value = 3

----------------------------------------------------------------------------
NormalizeCalled == wordsPc = "done" /\ returned.op = "normalizeArabic"

(* C21: normalizeArabic returns a value for every word, the empty word for  *)
(* the empty word, a value that it maps to itself, and a value without any  *)
(* of U+064B-U+065F, U+0670, U+0622, U+0623, U+0625 and U+0649.             *)
C21_Idempotent ==
    NormalizeCalled =>
        /\ normalizeArabic(returned.value) = returned.value
        /\ (argWord1 = <<>>) => (returned.value = <<>>)
        /\ \A i \in 1..Len(returned.value) :
              /\ ~(returned.value[i] >= 1611 /\ returned.value[i] <= 1631)
              /\ returned.value[i] \notin {1648, 1570, 1571, 1573, 1609}

\* a word with two diacritics, an alef variant and an alef maksura lost
\* the diacritics and had the letters folded
C21_Witness ==
    /\ NormalizeCalled
    /\ Len(argWord1) = 3
    /\ \E i \in 1..3 : IsDiacritic(argWord1[i])
    /\ \E i \in 1..3 : IsAlifVariant(argWord1[i])
    /\ \E i \in 1..3 : argWord1[i] = ALEF_MAKSURA
    /\ returned.value \in {<<ALEF, YEH>>, <<YEH, ALEF>>}

(* C22: two matchWords calls with the same arguments return the same value, *)
(* whatever calls were made before them and whichever instance they are     *)
(* made on.                                                                 *)
C22_SameArgumentsSameValue ==
    \A i, j \in 1..Len(calls) :
        (/\ calls[i].expectedText = calls[j].expectedText
         /\ calls[i].transcribedText = calls[j].transcribedText
         /\ calls[i].similarityThreshold = calls[j].similarityThreshold)
        => calls[i].value = calls[j].value

\* the same call on the two instances with a different call between them,
\* and a word matched in each
C22_Witness ==
    /\ Len(calls) = 3
    /\ calls[1].instance # calls[3].instance
    /\ calls[1].expectedText = calls[3].expectedText
    /\ calls[1].transcribedText = calls[3].transcribedText
    /\ calls[2].expectedText # calls[1].expectedText
    /\ calls[1].value.matchedCount = 1
    /\ calls[2].value # calls[1].value
    /\ calls[3].value = calls[1].value

(* C26: for one reference text and one candidate text the matched records   *)
(* of the reporting view are at least as many as the matchedCount of the    *)
(* consumption view at the same threshold, and the reporting accuracy is at *)
(* least the consumption accuracy.                                          *)
C26_ReportingAtLeastConsumption ==
    (pc = "done" /\ caller = "component") =>
        /\ similarityThreshold = REPORT_THRESHOLD
        /\ CountMatched(report.matchResults) >= result.matchedCount
        /\ FLeq(result.accuracy, report.accuracy)

\* a candidate word serves two reference words in the reporting view and
\* one in the consumption view
C26_Witness ==
    /\ pc = "done" /\ caller = "component"
    /\ Len(expectedWords) = 2 /\ expectedWords[1] # expectedWords[2]
    /\ CountMatched(report.matchResults) = 2
    /\ result.matchedCount = 1
    /\ FLt(result.accuracy, report.accuracy)

(* C24: every transcript update is aligned against the verse selected, and  *)
(* displayed, when the update is handled, also when the selection changed   *)
(* while recording.                                                         *)
C24_AlignsSelectedVerse ==
    [][ lastEvent'.type = "update" => lastEvent'.verse = selectedVerse ]_vars

ProviderFailed == response.kind \in {"thrown", "not_ok", "code_not_200"}

(* C25: when the provider of the reference text fails (the fetch throws, the *)
(* status is not OK, or the body's code is not 200), the load of a mounted  *)
(* page ends with an error toast, no success toast, and no verse is         *)
(* selected by it.                                                          *)
C25_FailureIsError ==
    [][ (lastEvent'.type = "load" /\ mounted /\ ProviderFailed') =>
          /\ toasts' \in {<<TOAST_LOAD_FAILED>>, <<TOAST_RANDOM_FAILED>>}
          /\ verses' = <<>>
          /\ selectedVerse' = selectedVerse ]_vars

(* C23: while the service is inactive no transcript reaches the handler,    *)
(* and the displayed transcription, match results and accuracy change only  *)
(* when recording is started again.                                         *)
C23_NothingAfterStop ==
    [][ ~isActive =>
          /\ lastEvent'.type # "update"
          /\ lastEvent'.type # "start" =>
                /\ transcription' = transcription
                /\ matchResults' = matchResults
                /\ accuracy' = accuracy ]_vars

\* a stopped instance delivered a result after the recording had completed,
\* and the result was dropped
C23_Witness ==
    /\ lastEvent.type = "dropped"
    /\ ~isActive /\ ~isRecording
    /\ isPerfectMatch
    /\ lastEvent.transcript # transcription
    /\ Len(matchResults) = 3

(* C29: every transcript the handler gets comes from the recognition        *)
(* instance of the most recent start(), and the end of a stopped instance   *)
(* leaves the recognition as it is.                                         *)
C29_OnlyCurrentInstance ==
    [][ /\ lastEvent'.type = "update" => lastEvent'.instance = "current"
        /\ lastEvent'.instance = "stopped" => recognition' = recognition ]_vars

(* C27: an inactive service with no start() in progress holds no microphone *)
(* stream, audio context, interval or timer, and start() resolves to true   *)
(* only when the service is active at that moment.                          *)
C27_InactiveHoldsNothing ==
    [][ /\ (~isActive' /\ startPending' = 0) => (~audio' /\ ~silenceTimer')
        /\ lastEvent'.type = "started" => isActive' ]_vars

(* C28: whenever the mounted page shows recording as in progress the        *)
(* service is active.                                                       *)
C28_RecordingIsActive == (mounted /\ isRecording) => isActive

====
